---------------------------- MODULE Spec2Model ----------------------------
(***************************************************************************)
(* A model of the Web-Scraper-Service extraction engine:                   *)
(*   scrapers/base.py         BaseScraper  (validate_url, get_page_response,*)
(*                            create_error_response, handle_request_errors) *)
(*   scrapers/url_scraper.py  URLScraper   (scrape, _extract_links, ...)    *)
(*   scrapers/text_scraper.py TextScraper  (scrape, _extract_text_content,  *)
(*                            _clean_text, ...)                             *)
(*   config.py                Config                                        *)
(*                                                                         *)
(* Python strings that the code inspects character by character (URLs,     *)
(* hrefs, attribute values, page text) are sequences of one-character      *)
(* strings.  Fixed messages are TLA+ strings.  A parsed document           *)
(* (BeautifulSoup tree) is the sequence of its nodes in document order,    *)
(* each with its depth in the tree.                                        *)
(***************************************************************************)
EXTENDS Integers, Sequences, FiniteSets, TLC

VARIABLES
    pc,         \* position of the current scrape call: idle, fetch, parse, done
    op,         \* which scraper is running: "none", "urls" (URLScraper), "text" (TextScraper)
    arg,        \* the url argument the caller passed to scrape()
    url,        \* the local variable url of scrape() after validate_url
    response,   \* the requests.Response held by scrape(), or NoResponse
    gets,       \* number of session.get calls issued by the current call
    elapsed,    \* steps since start_time was taken (time.time() - start_time)
    result,     \* the envelope scrape() returns, or NoResult
    caught,     \* the exception e caught by scrape()'s `except Exception as e`, or NoException
    MAX_RETRIES,\* Config.MAX_RETRIES, read from the environment at import
    session,    \* self.session of url_scraper and of text_scraper (app.py 28-29)
    calls,      \* the scrape() calls in progress on the server's threads
    api_keys,   \* api_key_manager.api_keys, the dict in insertion order
    served      \* the request the server handled last and what was done for it

vars == <<pc, op, arg, url, response, gets, elapsed, result, caught, MAX_RETRIES,
          session, calls, api_keys, served>>

\* what the scraper engine leaves alone when it handles one call at a time
service == <<calls, api_keys, served>>

-----------------------------------------------------------------------------
(* Config (config.py) *)

REQUEST_TIMEOUT == 10
DEFAULT_MAX_RETRIES == 3
MAX_CONTENT_LENGTH == 1000000

-----------------------------------------------------------------------------
(* Bounds of the model *)

MaxRetriesSetting == 3   \* MAX_RETRIES ranges over 0..MaxRetriesSetting
MaxPad == 2              \* whitespace characters around a url argument
MaxAnchors == 3          \* nodes of a document given to the link extractor
MaxNodes == 3            \* nodes of a document given to the text extractor
MaxLinks == 2            \* anchors of a document given to the link classifier
MaxLen == 5              \* characters of a raw text given to _clean_text
MaxThreads == 2          \* scrape() calls in progress at the same time
MaxKeys == 1             \* keys that generate_api_key adds to the configured ones
MaxCaseNodes == 2        \* nodes of a document with noise words in several letter cases

-----------------------------------------------------------------------------
(* Python values *)

None == "None"             \* None where a str is expected (error fields)
NoneSeq == <<"None">>      \* None where a character sequence is expected
NoResponse == [kind |-> "none"]
NoResult == [kind |-> "none"]
NoException == [type |-> "none", msg |-> ""]

Ok(v) == [ok |-> TRUE, value |-> v]
Raise(type, msg) == [ok |-> FALSE, exc |-> [type |-> type, msg |-> msg]]

-----------------------------------------------------------------------------
(* str methods, on sequences of characters *)

Whitespace == {" ", "\t", "\n", "\r", "\f"}
LineBoundaries == {"\n", "\r", "\f"}

LowerLetters == <<"a", "b", "c", "d", "e", "f", "g", "h", "i", "j", "k", "l", "m", "n", "o", "p", "q", "r", "s", "t", "u", "v", "w", "x", "y", "z">>
UpperLetters == <<"A", "B", "C", "D", "E", "F", "G", "H", "I", "J", "K", "L", "M", "N", "O", "P", "Q", "R", "S", "T", "U", "V", "W", "X", "Y", "Z">>
Digits == {"0", "1", "2", "3", "4", "5", "6", "7", "8", "9"}

Range(s) == {s[i] : i \in DOMAIN s}

LowerChar(c) ==
    IF \E i \in 1..26 : UpperLetters[i] = c
    THEN LowerLetters[CHOOSE i \in 1..26 : UpperLetters[i] = c]
    ELSE c

lower(s) == [i \in 1..Len(s) |-> LowerChar(s[i])]

startswith(s, p) == Len(s) >= Len(p) /\ SubSeq(s, 1, Len(p)) = p

endswith(s, p) == Len(s) >= Len(p) /\ SubSeq(s, Len(s) - Len(p) + 1, Len(s)) = p

startswith_any(s, ps) == \E p \in ps : startswith(s, p)

\* s.find(sub): first index (1-based) at which sub occurs in s, 0 when absent
find(s, sub) ==
    LET hits == {i \in 1..(Len(s) - Len(sub) + 1) : SubSeq(s, i, i + Len(sub) - 1) = sub}
    IN  IF hits = {} THEN 0 ELSE CHOOSE i \in hits : \A j \in hits : i <= j

contains(s, sub) == find(s, sub) # 0

RECURSIVE lstrip(_)
lstrip(s) == IF s # <<>> /\ Head(s) \in Whitespace THEN lstrip(Tail(s)) ELSE s

RECURSIVE rstrip(_)
rstrip(s) ==
    IF s # <<>> /\ s[Len(s)] \in Whitespace THEN rstrip(SubSeq(s, 1, Len(s) - 1)) ELSE s

strip(s) == rstrip(lstrip(s))

\* s.split(sep) for a non-empty separator: always at least one piece
RECURSIVE split(_, _)
split(s, sep) ==
    LET i == find(s, sep)
    IN  IF i = 0 THEN <<s>>
        ELSE <<SubSeq(s, 1, i - 1)>> \o split(SubSeq(s, i + Len(sep), Len(s)), sep)

\* sep.join(parts)
RECURSIVE join(_, _)
join(sep, parts) ==
    IF parts = <<>> THEN <<>>
    ELSE IF Len(parts) = 1 THEN parts[1]
    ELSE parts[1] \o sep \o join(sep, Tail(parts))

\* s.splitlines(): "\r\n" is one boundary; no trailing empty line
RECURSIVE splitlines(_)
splitlines(s) ==
    LET ends == {i \in 1..Len(s) : s[i] \in LineBoundaries}
    IN  IF s = <<>> THEN <<>>
        ELSE IF ends = {} THEN <<s>>
        ELSE LET i == CHOOSE k \in ends : \A j \in ends : k <= j
                 n == IF s[i] = "\r" /\ i < Len(s) /\ s[i + 1] = "\n" THEN i + 2 ELSE i + 1
             IN  <<SubSeq(s, 1, i - 1)>> \o splitlines(SubSeq(s, n, Len(s)))

\* s.split(): the whitespace-delimited tokens of s
RECURSIVE split_ws(_)
split_ws(s) ==
    LET t == lstrip(s)
        stops == {i \in 1..Len(t) : t[i] \in Whitespace}
    IN  IF t = <<>> THEN <<>>
        ELSE IF stops = {} THEN <<t>>
        ELSE LET i == CHOOSE k \in stops : \A j \in stops : k <= j
             IN  <<SubSeq(t, 1, i - 1)>> \o split_ws(SubSeq(t, i, Len(t)))

\* re.sub(r'\s+', ' ', s)
RECURSIVE re_sub_ws(_)
re_sub_ws(s) ==
    IF s = <<>> THEN <<>>
    ELSE IF Head(s) \in Whitespace THEN <<" ">> \o re_sub_ws(lstrip(s))
    ELSE <<Head(s)>> \o re_sub_ws(Tail(s))

RECURSIVE Flatten(_)
Flatten(ss) == IF ss = <<>> THEN <<>> ELSE Head(ss) \o Flatten(Tail(ss))

-----------------------------------------------------------------------------
(* String constants of the code *)

S_http == <<"h", "t", "t", "p", ":", "/", "/">>
S_https == <<"h", "t", "t", "p", "s", ":", "/", "/">>
S_mailto == <<"m", "a", "i", "l", "t", "o", ":">>
S_tel == <<"t", "e", "l", ":">>
S_ftp_slashes == <<"f", "t", "p", ":", "/", "/">>
S_ftp == <<"f", "t", "p", ":">>
S_javascript == <<"j", "a", "v", "a", "s", "c", "r", "i", "p", "t", ":">>
FileExtensions ==
    { <<".", "p", "d", "f">>, <<".", "d", "o", "c">>, <<".", "d", "o", "c", "x">>,
      <<".", "x", "l", "s">>, <<".", "x", "l", "s", "x">>, <<".", "z", "i", "p">>,
      <<".", "r", "a", "r">> }

-----------------------------------------------------------------------------
(* urllib.parse, as far as the scrapers use it.  Not modelled: the ';params' *)
(* part of a path and the removal of control characters from a url.         *)

SchemeChars == Range(LowerLetters) \cup Range(UpperLetters) \cup Digits \cup {"+", "-", "."}
Alpha == Range(LowerLetters) \cup Range(UpperLetters)
uses_relative == { <<>>, <<"h", "t", "t", "p">>, <<"h", "t", "t", "p", "s">>,
                   <<"f", "t", "p">>, <<"f", "i", "l", "e">> }
uses_netloc == uses_relative

\* index of the first character of s that lies in stops, Len(s) + 1 when none
FirstOf(s, stops) ==
    LET hits == {i \in 1..Len(s) : s[i] \in stops}
    IN  IF hits = {} THEN Len(s) + 1 ELSE CHOOSE i \in hits : \A j \in hits : i <= j

\* urlsplit: the scheme and what follows it
split_scheme(u, default_scheme) ==
    LET i == find(u, <<":">>)
    IN  IF i > 1 /\ u[1] \in Alpha /\ (\A k \in 1..(i - 1) : u[k] \in SchemeChars)
        THEN [scheme |-> lower(SubSeq(u, 1, i - 1)), rest |-> SubSeq(u, i + 1, Len(u))]
        ELSE [scheme |-> default_scheme, rest |-> u]

\* urlsplit: the netloc after '//' and what follows it
split_netloc(rest) ==
    IF startswith(rest, <<"/", "/">>)
    THEN LET after == SubSeq(rest, 3, Len(rest))
             stop == FirstOf(after, {"/", "?", "#"})
         IN  [has |-> TRUE, netloc |-> SubSeq(after, 1, stop - 1),
              rest |-> SubSeq(after, stop, Len(after))]
    ELSE [has |-> FALSE, netloc |-> <<>>, rest |-> rest]

\* s.split(sep, 1): what precedes the first sep, and what follows it
split_once(s, sep) ==
    LET i == find(s, sep)
    IN  IF i = 0 THEN [head |-> s, tail |-> <<>>]
        ELSE [head |-> SubSeq(s, 1, i - 1), tail |-> SubSeq(s, i + 1, Len(s))]

\* urlsplit, once the url is cut at the scheme, the netloc, '#' and '?'
urlsplit_parts(s, n, f, q) ==
    IF n.has /\ (("[" \in Range(n.netloc)) # ("]" \in Range(n.netloc)))
    THEN Raise("ValueError", "Invalid IPv6 URL")
    ELSE Ok([scheme |-> s.scheme, netloc |-> n.netloc, path |-> q.head,
             query |-> q.tail, fragment |-> f.tail])

urlsplit_query(s, n, f) == urlsplit_parts(s, n, f, split_once(f.head, <<"?">>))

urlsplit_fragment(s, n) == urlsplit_query(s, n, split_once(n.rest, <<"#">>))

urlsplit_netloc(s) == urlsplit_fragment(s, split_netloc(s.rest))

\* urlsplit(url, scheme): Ok([scheme, netloc, path, query, fragment]) or ValueError
urlsplit(u, default_scheme) == urlsplit_netloc(split_scheme(u, default_scheme))

\* urlunsplit: the part from '//' to the end of the path
netloc_and_path(p) ==
    IF p.netloc # <<>> \/ (p.scheme \in uses_netloc /\ ~startswith(p.path, <<"/", "/">>))
    THEN <<"/", "/">> \o p.netloc
         \o (IF p.path # <<>> /\ p.path[1] # "/" THEN <<"/">> ELSE <<>>)
         \o p.path
    ELSE p.path

\* urlunsplit
urlunsplit(p) ==
    (IF p.scheme # <<>> THEN p.scheme \o <<":">> ELSE <<>>)
    \o netloc_and_path(p)
    \o (IF p.query # <<>> THEN <<"?">> \o p.query ELSE <<>>)
    \o (IF p.fragment # <<>> THEN <<"#">> \o p.fragment ELSE <<>>)

\* the dot-segment loop of urljoin
RECURSIVE resolve_segments(_, _)
resolve_segments(segments, resolved) ==
    IF segments = <<>> THEN resolved
    ELSE IF Head(segments) = <<".", ".">>
         THEN resolve_segments(Tail(segments),
                               IF resolved = <<>> THEN <<>>
                               ELSE SubSeq(resolved, 1, Len(resolved) - 1))
    ELSE IF Head(segments) = <<".">> THEN resolve_segments(Tail(segments), resolved)
    ELSE resolve_segments(Tail(segments), Append(resolved, Head(segments)))

\* segments[1:-1] = filter(None, segments[1:-1])
FilterInner(segments) ==
    IF Len(segments) <= 2 THEN segments
    ELSE <<segments[1]>>
         \o SelectSeq(SubSeq(segments, 2, Len(segments) - 1), LAMBDA x : x # <<>>)
         \o <<segments[Len(segments)]>>

\* urljoin: the last segment of a base path is dropped unless it is empty
base_parts(bsegs) ==
    IF bsegs[Len(bsegs)] # <<>> THEN SubSeq(bsegs, 1, Len(bsegs) - 1) ELSE bsegs

\* urljoin: the resolved segments, joined
joined_path(segments, res) ==
    join(<<"/">>, IF segments[Len(segments)] \in {<<".">>, <<".", ".">>}
                  THEN Append(res, <<>>) ELSE res)

resolve(segments) == joined_path(segments, resolve_segments(segments, <<>>))

or_slash(path) == IF path = <<>> THEN <<"/">> ELSE path

\* urljoin: the path of the reference resolved against the path of the base
resolve_path(bpath, path) ==
    or_slash(resolve(IF path[1] = "/" THEN split(path, <<"/">>)
                     ELSE FilterInner(base_parts(split(bpath, <<"/">>))
                                      \o split(path, <<"/">>))))

\* the path and query urljoin gives a reference without a netloc
joined_reference(b, p) ==
    IF p.path = <<>>
    THEN [p EXCEPT !.netloc = b.netloc, !.path = b.path,
                   !.query = IF p.query = <<>> THEN b.query ELSE p.query]
    ELSE [p EXCEPT !.netloc = b.netloc, !.path = resolve_path(b.path, p.path)]

\* urljoin, once both urls are split
join_parts(b, p, u) ==
    IF p.scheme # b.scheme \/ p.scheme \notin uses_relative THEN u
    ELSE urlunsplit(IF p.scheme \in uses_netloc /\ p.netloc # <<>> THEN p
                    ELSE joined_reference(b, p))

urljoin_reference(b, up, u) == IF ~up.ok THEN up ELSE Ok(join_parts(b, up.value, u))

urljoin_base(bp, u) ==
    IF ~bp.ok THEN bp ELSE urljoin_reference(bp.value, urlsplit(u, bp.value.scheme), u)

\* urljoin(base, url): Ok(joined url) or ValueError
urljoin(base, u) ==
    IF base = <<>> THEN Ok(u)
    ELSE IF u = <<>> THEN Ok(base)
    ELSE urljoin_base(urlsplit(base, <<>>), u)

\* the netloc of a split url
netloc_part(p) == IF p.ok THEN Ok(p.value.netloc) ELSE p

\* urlparse(u).netloc: Ok(netloc) or ValueError
netloc_of(u) == netloc_part(urlsplit(u, <<>>))

-----------------------------------------------------------------------------
(* BaseScraper (scrapers/base.py) *)

\* validate_url with the url.strip() left out
validate_url_unstripped(u) ==
    IF u = <<>>
    THEN [url |-> NoneSeq, error |-> "URL cannot be empty"]
    ELSE [url |-> IF startswith_any(u, {S_http, S_https}) THEN u ELSE S_https \o u,
          error |-> None]

\* validate_url with the `if not url` test left out
validate_url_no_empty_check(u) ==
    [url |-> IF startswith_any(strip(u), {S_http, S_https}) THEN strip(u)
             ELSE S_https \o strip(u),
     error |-> None]

\* validate_url(url) -> (normalized_url, error_message)
validate_url(u) ==
    IF u = <<>>
    THEN [url |-> NoneSeq, error |-> "URL cannot be empty"]
    ELSE LET s == strip(u)
         IN  [url |-> IF startswith_any(s, {S_http, S_https}) THEN s ELSE S_https \o s,
              error |-> None]

\* the exception classes of requests that get_page_response can raise
TimeoutTypes == {"ConnectTimeout", "ReadTimeout"}
RequestExceptionTypes ==
    TimeoutTypes \cup {"ConnectionError", "HTTPError", "InvalidURL", "TooManyRedirects"}

\* create_error_response(error_msg, start_time); start_time is time.time(), never 0
create_error_response(error_msg, dt) ==
    [success |-> FALSE,
     processing_time |-> dt,
     timestamp |-> "utcnow",
     error |-> error_msg]

\* handle_request_errors with the request failure reported as str(error) alone
handle_request_errors_bare(error, dt) ==
    LET error_msg ==
          IF error.type \in TimeoutTypes
          THEN "Request timeout after " \o ToString(REQUEST_TIMEOUT) \o " seconds"
          ELSE error.msg
    IN  create_error_response(error_msg, dt)

\* handle_request_errors(url, error, start_time)
handle_request_errors(error, dt) ==
    LET error_msg ==
          IF error.type \in TimeoutTypes
          THEN "Request timeout after " \o ToString(REQUEST_TIMEOUT) \o " seconds"
          ELSE IF error.type \in RequestExceptionTypes
          THEN "Request failed: " \o error.msg
          ELSE "Unexpected error: " \o error.msg
    IN  create_error_response(error_msg, dt)

-----------------------------------------------------------------------------
(* BeautifulSoup trees.  A document is the sequence of its nodes in document *)
(* order; a node of depth d + 1 is a child of the nearest earlier node of    *)
(* depth d.  A soup is a document with the set of positions still in the     *)
(* tree (decompose() takes positions out).  The str of an element is the    *)
(* text that directly follows its start tag (<h1>A</h1> is one node); text  *)
(* elsewhere is a "#text" node.                                              *)

Absent == NoneSeq          \* tag.get(attr) of an attribute the tag lacks

Element(tag) ==
    [tag |-> tag, depth |-> 0, str |-> <<>>,
     href |-> Absent, title |-> Absent, class |-> Absent, id |-> Absent,
     property |-> Absent, name |-> Absent, content |-> Absent]

TextNode(s) == [Element("#text") EXCEPT !.str = s]

VoidTags == {"#text", "meta"}

\* BeautifulSoup(content, 'html.parser') of a body the parser accepts
BeautifulSoup(doc) == [nodes |-> doc, alive |-> DOMAIN doc]

\* the positions of the subtree rooted at position i
Subtree(doc, i) ==
    {j \in i..Len(doc) : \A k \in (i + 1)..j : doc[k].depth > doc[i].depth}

\* the positions of a set, in document order
RECURSIVE InOrder(_)
InOrder(S) ==
    IF S = {} THEN <<>>
    ELSE LET m == CHOOSE x \in S : \A y \in S : x <= y
         IN  <<m>> \o InOrder(S \ {m})

\* soup.find_all(tags): positions of the elements in the tree with one of the tags
find_all(soup, tags) ==
    InOrder({i \in soup.alive : soup.nodes[i].tag \in tags})

\* element.decompose()
decompose(soup, i) == [soup EXCEPT !.alive = @ \ Subtree(soup.nodes, i)]

\* for element in elements: element.decompose()
RECURSIVE decompose_each(_, _)
decompose_each(soup, elements) ==
    IF elements = <<>> THEN soup
    ELSE decompose_each(decompose(soup, Head(elements)), Tail(elements))

\* the strings in the subtrees of the given positions, in document order
StringsUnder(soup, roots) ==
    LET S == {j \in soup.alive : /\ soup.nodes[j].str # <<>>
                                   /\ \E r \in roots : j \in Subtree(soup.nodes, r)}
        order == InOrder(S)
    IN  [k \in 1..Len(order) |-> soup.nodes[order[k]].str]

\* soup.get_text()
soup_get_text(soup) ==
    Flatten(StringsUnder(soup, {i \in soup.alive : soup.nodes[i].depth = 0}))

\* element.get_text(strip=True): each string stripped, the empty ones dropped
get_text_strip(soup, i) ==
    LET strs == StringsUnder(soup, {i})
        stripped == [k \in 1..Len(strs) |-> strip(strs[k])]
    IN  Flatten(SelectSeq(stripped, LAMBDA x : x # <<>>))

\* tag.get(attr, '')
get_or_empty(v) == IF v = Absent THEN <<>> ELSE v

-----------------------------------------------------------------------------
(* URLScraper (scrapers/url_scraper.py) *)

\* link_domain != base_domain and link_domain != ''; False at an exception
domains_differ(link_domain, base_domain) ==
    IF ~link_domain.ok \/ ~base_domain.ok THEN FALSE
    ELSE link_domain.value # base_domain.value /\ link_domain.value # <<>>

\* _is_external_link(link_url, base_url)
_is_external_link(link_url, base_url) ==
    domains_differ(netloc_of(link_url), netloc_of(base_url))

\* _get_link_type with the file suffixes tested before the prefixes
_get_link_type_file_first(href) ==
    IF \E ext \in FileExtensions : endswith(lower(href), ext) THEN "file"
    ELSE IF startswith(href, S_mailto) THEN "email"
    ELSE IF startswith(href, S_tel) THEN "phone"
    ELSE IF startswith(href, S_ftp) THEN "ftp"
    ELSE IF startswith(href, <<"#">>) THEN "anchor"
    ELSE IF startswith(href, S_javascript) THEN "javascript"
    ELSE "web"

\* _get_link_type(href)
_get_link_type(href) ==
    IF startswith(href, S_mailto) THEN "email"
    ELSE IF startswith(href, S_tel) THEN "phone"
    ELSE IF startswith(href, S_ftp) THEN "ftp"
    ELSE IF startswith(href, <<"#">>) THEN "anchor"
    ELSE IF startswith(href, S_javascript) THEN "javascript"
    ELSE IF \E ext \in FileExtensions : endswith(lower(href), ext) THEN "file"
    ELSE "web"

\* is_relative = not href.startswith((...))
is_relative(href) ==
    ~startswith_any(href, {S_http, S_https, S_mailto, S_tel, S_ftp_slashes})

\* the id taken from enumerate() as it counts, from 0
link_id_zero_based(i) == i

\* the id given to the anchor that enumerate() numbers i (from 0)
link_id(i) == i + 1

\* soup.find_all('a', href=True)
anchors_with_href(soup) ==
    InOrder({i \in soup.alive : soup.nodes[i].tag = "a" /\ soup.nodes[i].href # Absent})

\* link_obj with is_relative taken from full_url instead of href
link_obj_relative_of_full_url(soup, pos, i, full_url, base_url) ==
    [id |-> link_id(i),
     url |-> full_url,
     original_href |-> soup.nodes[pos].href,
     text |-> get_text_strip(soup, pos),
     title |-> get_or_empty(soup.nodes[pos].title),
     class |-> join(<<" ">>, split_ws(get_or_empty(soup.nodes[pos].class))),
     is_relative |-> is_relative(full_url),
     is_external |-> _is_external_link(full_url, base_url),
     link_type |-> _get_link_type(soup.nodes[pos].href)]

\* the link_obj built for the anchor at position pos, numbered i by enumerate
link_obj(soup, pos, i, full_url, base_url) ==
    [id |-> link_id(i),
     url |-> full_url,
     original_href |-> soup.nodes[pos].href,
     text |-> get_text_strip(soup, pos),
     title |-> get_or_empty(soup.nodes[pos].title),
     class |-> join(<<" ">>, split_ws(get_or_empty(soup.nodes[pos].class))),
     is_relative |-> is_relative(soup.nodes[pos].href),
     is_external |-> _is_external_link(full_url, base_url),
     link_type |-> _get_link_type(soup.nodes[pos].href)]

\* the loop of _extract_links over the anchors, given what urljoin makes of each:
\* the links, or the exception of the first anchor urljoin cannot join
links_of(soup, anchors, full, base_url) ==
    IF \E k \in 1..Len(anchors) : ~full[k].ok
    THEN full[CHOOSE k \in 1..Len(anchors) :
                /\ ~full[k].ok
                /\ \A j \in 1..(k - 1) : full[j].ok]
    ELSE Ok([k \in 1..Len(anchors) |->
               link_obj(soup, anchors[k], k - 1, full[k].value, base_url)])

joined_anchors(soup, anchors, base_url) ==
    links_of(soup, anchors,
             [k \in 1..Len(anchors) |-> urljoin(base_url, soup.nodes[anchors[k]].href)],
             base_url)

\* _extract_links(soup, base_url): Ok(list of link objects), or the exception raised
_extract_links(soup, base_url) == joined_anchors(soup, anchors_with_href(soup), base_url)

\* URLScraper._create_empty_response(error_msg, start_time)
URLScraper_create_empty_response(error_msg, dt) ==
    [success |-> FALSE,
     urls |-> <<>>,
     count |-> 0,
     processing_time |-> dt,
     timestamp |-> "utcnow",
     error |-> error_msg]

-----------------------------------------------------------------------------
(* TextScraper (scrapers/text_scraper.py) *)

S_nav == <<"n", "a", "v">>
S_menu == <<"m", "e", "n", "u">>
S_sidebar == <<"s", "i", "d", "e", "b", "a", "r">>
S_footer == <<"f", "o", "o", "t", "e", "r">>
S_header == <<"h", "e", "a", "d", "e", "r">>
S_og_title == <<"o", "g", ":", "t", "i", "t", "l", "e">>
S_og_description == <<"o", "g", ":", "d", "e", "s", "c", "r", "i", "p", "t", "i", "o", "n">>
S_description == <<"d", "e", "s", "c", "r", "i", "p", "t", "i", "o", "n">>

\* unwanted_selectors, in the order of the list
unwanted_selectors ==
    << [attr |-> "class", sub |-> S_nav], [attr |-> "class", sub |-> S_menu],
       [attr |-> "class", sub |-> S_sidebar], [attr |-> "class", sub |-> S_footer],
       [attr |-> "class", sub |-> S_header],
       [attr |-> "id", sub |-> S_nav], [attr |-> "id", sub |-> S_menu],
       [attr |-> "id", sub |-> S_sidebar], [attr |-> "id", sub |-> S_footer],
       [attr |-> "id", sub |-> S_header] >>

\* the value a selector [attr*="sub"] is matched against: a class list is
\* joined by single spaces
attr_value(node, attr) ==
    IF attr = "class"
    THEN (IF node.class = Absent THEN Absent ELSE join(<<" ">>, split_ws(node.class)))
    ELSE node.id

\* the selector matched without regard to letter case ([attr*="sub" i])
select_ignoring_case(soup, selector) ==
    InOrder({i \in soup.alive :
               LET v == attr_value(soup.nodes[i], selector.attr)
               IN  v # Absent /\ contains(lower(v), selector.sub)})

\* soup.select('[attr*="sub"]')
select(soup, selector) ==
    InOrder({i \in soup.alive :
               LET v == attr_value(soup.nodes[i], selector.attr)
               IN  v # Absent /\ contains(v, selector.sub)})

\* the first element of a result list, alone, if there is one
first_of(hits) == IF hits = <<>> THEN <<>> ELSE <<Head(hits)>>

\* the selector loop with only the first match of each selector removed
\* (select_one for select)
RECURSIVE remove_selected_first_only(_, _)
remove_selected_first_only(soup, selectors) ==
    IF selectors = <<>> THEN soup
    ELSE remove_selected_first_only(
             decompose_each(soup, first_of(select(soup, Head(selectors)))),
             Tail(selectors))

\* for selector in unwanted_selectors: for element in soup.select(selector): ...
RECURSIVE remove_selected(_, _)
remove_selected(soup, selectors) ==
    IF selectors = <<>> THEN soup
    ELSE remove_selected(decompose_each(soup, select(soup, Head(selectors))),
                         Tail(selectors))

\* _remove_unwanted_elements(soup)
_remove_unwanted_elements(soup) ==
    LET s1 == decompose_each(soup, find_all(soup, {"script", "style"}))
        s2 == decompose_each(s1, find_all(s1, {"nav", "header", "footer", "aside"}))
    IN  remove_selected(s2, unwanted_selectors)

\* re.sub(r'\s\s', ' ', s): whitespace replaced pair by pair
RECURSIVE re_sub_ws_pairs(_)
re_sub_ws_pairs(s) ==
    IF s = <<>> THEN <<>>
    ELSE IF Len(s) >= 2 /\ s[1] \in Whitespace /\ s[2] \in Whitespace
    THEN <<" ">> \o re_sub_ws_pairs(SubSeq(s, 3, Len(s)))
    ELSE <<Head(s)>> \o re_sub_ws_pairs(Tail(s))

\* _clean_text with r'\s\s' for r'\s+' in the final re.sub
_clean_text_pairs(text) ==
    LET raw_lines == splitlines(text)
        lines == [i \in 1..Len(raw_lines) |-> strip(raw_lines[i])]
        pieces == Flatten([i \in 1..Len(lines) |-> split(lines[i], <<" ", " ">>)])
        chunks == [i \in 1..Len(pieces) |-> strip(pieces[i])]
        cleaned == join(<<" ">>, SelectSeq(chunks, LAMBDA c : c # <<>>))
    IN  strip(re_sub_ws_pairs(cleaned))

\* _clean_text with the chunks joined by '' instead of ' '
_clean_text_joined(text) ==
    LET raw_lines == splitlines(text)
        lines == [i \in 1..Len(raw_lines) |-> strip(raw_lines[i])]
        pieces == Flatten([i \in 1..Len(lines) |-> split(lines[i], <<" ", " ">>)])
        chunks == [i \in 1..Len(pieces) |-> strip(pieces[i])]
        cleaned == Flatten(SelectSeq(chunks, LAMBDA c : c # <<>>))
    IN  strip(re_sub_ws(cleaned))

\* _clean_text(text)
_clean_text(text) ==
    LET raw_lines == splitlines(text)
        lines == [i \in 1..Len(raw_lines) |-> strip(raw_lines[i])]
        pieces == Flatten([i \in 1..Len(lines) |-> split(lines[i], <<" ", " ">>)])
        chunks == [i \in 1..Len(pieces) |-> strip(pieces[i])]
        cleaned == join(<<" ">>, SelectSeq(chunks, LAMBDA c : c # <<>>))
    IN  strip(re_sub_ws(cleaned))

\* soup.find(tag): the first element with the tag, 0 when there is none
soup_find(soup, tag) ==
    LET hits == find_all(soup, {tag}) IN IF hits = <<>> THEN 0 ELSE hits[1]

\* soup.find('meta', attrs={attr: value})
find_meta(soup, attr, value) ==
    LET hits == InOrder({i \in soup.alive :
                           /\ soup.nodes[i].tag = "meta"
                           /\ (IF attr = "property" THEN soup.nodes[i].property
                               ELSE soup.nodes[i].name) = value})
    IN  IF hits = <<>> THEN 0 ELSE hits[1]

\* _extract_title(soup)
_extract_title(soup) ==
    LET title == soup_find(soup, "title")
        og_title == find_meta(soup, "property", S_og_title)
        h1 == soup_find(soup, "h1")
    IN  IF title # 0 THEN get_text_strip(soup, title)
        ELSE IF og_title # 0 THEN get_or_empty(soup.nodes[og_title].content)
        ELSE IF h1 # 0 THEN get_text_strip(soup, h1)
        ELSE <<>>

\* _extract_meta_description(soup)
_extract_meta_description(soup) ==
    LET meta_desc == find_meta(soup, "name", S_description)
        og_desc == find_meta(soup, "property", S_og_description)
    IN  IF meta_desc # 0 THEN get_or_empty(soup.nodes[meta_desc].content)
        ELSE IF og_desc # 0 THEN get_or_empty(soup.nodes[og_desc].content)
        ELSE <<>>

\* [h.get_text() for h in soup.find_all(tag)]: the strip=True left out
heading_texts_unstripped(soup, tag) ==
    LET hs == find_all(soup, {tag})
    IN  [k \in 1..Len(hs) |-> Flatten(StringsUnder(soup, {hs[k]}))]

\* [h.get_text(strip=True) for h in soup.find_all(tag)]
heading_texts(soup, tag) ==
    LET hs == find_all(soup, {tag})
    IN  [k \in 1..Len(hs) |-> get_text_strip(soup, hs[k])]

\* _extract_headings(soup)
_extract_headings(soup) ==
    [h1 |-> heading_texts(soup, "h1"), h2 |-> heading_texts(soup, "h2"),
     h3 |-> heading_texts(soup, "h3"), h4 |-> heading_texts(soup, "h4"),
     h5 |-> heading_texts(soup, "h5"), h6 |-> heading_texts(soup, "h6")]

\* text_data with the words counted by cleaned_text.split(' ')
text_data_split_on_space(soup, cleaned_text) ==
    [text |-> cleaned_text,
     title |-> _extract_title(soup),
     meta_description |-> _extract_meta_description(soup),
     headings |-> _extract_headings(soup),
     word_count |-> Len(split(cleaned_text, <<" ">>)),
     character_count |-> Len(cleaned_text)]

\* the dict _extract_text_content returns, given the tree after noise removal
\* and the cleaned text
text_data(soup, cleaned_text) ==
    [text |-> cleaned_text,
     title |-> _extract_title(soup),
     meta_description |-> _extract_meta_description(soup),
     headings |-> _extract_headings(soup),
     word_count |-> Len(split_ws(cleaned_text)),
     character_count |-> Len(cleaned_text)]

cleaned_text_data(soup) == text_data(soup, _clean_text(soup_get_text(soup)))

\* _extract_text_content(soup)
_extract_text_content(soup) == cleaned_text_data(_remove_unwanted_elements(soup))

EmptyDict == <<>>

\* TextScraper._create_empty_response(error_msg, start_time)
TextScraper_create_empty_response(error_msg, dt) ==
    [success |-> FALSE,
     text |-> <<>>,
     title |-> <<>>,
     meta_description |-> <<>>,
     headings |-> EmptyDict,
     word_count |-> 0,
     character_count |-> 0,
     processing_time |-> dt,
     timestamp |-> "utcnow",
     error |-> error_msg]

-----------------------------------------------------------------------------
(* The two scrape() methods, as the envelope they return from each stage *)

\* the exception BeautifulSoup raises on a body html.parser rejects
ParserRejectedMarkup == [type |-> "ParserRejectedMarkup", msg |-> "markup rejected"]

\* URLScraper.scrape, lines 43-57: the envelope for the links, or for the
\* exception, which goes to handle_request_errors
URLScraper_envelope(links, dt) ==
    IF links.ok
    THEN [success |-> TRUE,
          urls |-> links.value,
          count |-> Len(links.value),
          processing_time |-> dt,
          timestamp |-> "utcnow",
          error |-> None]
    ELSE handle_request_errors(links.exc, dt)

\* URLScraper.scrape, lines 37-41: parse and extract: Ok(links), or the
\* exception raised
URLScraper_links(resp, u) ==
    IF resp.rejected THEN [ok |-> FALSE, exc |-> ParserRejectedMarkup]
    ELSE _extract_links(BeautifulSoup(resp.doc), u)

\* URLScraper.scrape, lines 37-57: parse, extract, build the envelope
URLScraper_finish(resp, u, dt) == URLScraper_envelope(URLScraper_links(resp, u), dt)

\* the exception e of `except Exception as e`, when the try block raised
raised_by(outcome) == IF outcome.ok THEN NoException ELSE outcome.exc

\* the size check with >= for >
content_too_large_inclusive(n) == n >= MAX_CONTENT_LENGTH

\* if len(response.content) > self.config.MAX_CONTENT_LENGTH
content_too_large(n) == n > MAX_CONTENT_LENGTH

\* TextScraper.scrape, lines 49-63: the success envelope
TextScraper_envelope(data, dt) ==
    [success |-> TRUE,
     text |-> data.text,
     title |-> data.title,
     meta_description |-> data.meta_description,
     headings |-> data.headings,
     word_count |-> data.word_count,
     character_count |-> data.character_count,
     processing_time |-> dt,
     timestamp |-> "utcnow",
     error |-> None]

\* TextScraper.scrape, lines 37-67: size check, parse, extract, build the envelope
TextScraper_finish(resp, dt) ==
    IF content_too_large(resp.content_length)
    THEN TextScraper_create_empty_response(
             "Content too large: " \o ToString(resp.content_length)
                 \o " bytes (max: " \o ToString(MAX_CONTENT_LENGTH) \o ")", dt)
    ELSE IF resp.rejected THEN handle_request_errors(ParserRejectedMarkup, dt)
    ELSE TextScraper_envelope(_extract_text_content(BeautifulSoup(resp.doc)), dt)

\* the exception TextScraper.scrape catches after the fetch
TextScraper_raised(resp) ==
    IF ~content_too_large(resp.content_length) /\ resp.rejected
    THEN ParserRejectedMarkup
    ELSE NoException

\* `if error:` on the error message validate_url returned
truthy(msg) == msg # None /\ msg # ""

-----------------------------------------------------------------------------
(* requests.Session, as BaseScraper.__init__ builds it (base.py 14-19)      *)
(* A session keeps the headers it sends with every request and a cookie jar *)
(* that session.get fills from the Set-Cookie header of every response and  *)
(* reads when it prepares the next request.                                 *)

UserAgent ==
    "Mozilla/5.0 (Windows NT 10.0; Win64; x64) AppleWebKit/537.36 (KHTML, like Gecko) Chrome/91.0.4472.124 Safari/537.36"

\* requests.Session(): the library's default headers and an empty cookie jar
requests_Session ==
    [headers |-> ("User-Agent" :> "python-requests") @@ ("Accept-Encoding" :> "gzip, deflate")
                 @@ ("Accept" :> "*/*") @@ ("Connection" :> "keep-alive"),
     cookies |-> {}]

\* self.session.headers.update({'User-Agent': ...})
BaseScraper_session ==
    [requests_Session EXCEPT !.headers = ("User-Agent" :> UserAgent) @@ @]

\* response.headers.get('Set-Cookie') of a response without that header
NoCookie == [name |-> None, value |-> None]

\* the Set-Cookie header of what the network returned
set_cookie_of(net) ==
    IF net.kind = "response" /\ "set_cookie" \in DOMAIN net THEN net.set_cookie ELSE NoCookie

\* the Cookie header session.get sends to a host: the jar's cookies of that domain
cookies_for(sess, host) ==
    {[name |-> c.name, value |-> c.value] : c \in {d \in sess.cookies : d.domain = host}}

\* the jar after a response from host: a cookie replaces the one of its name
jar_after(jar, host, cookie) ==
    IF cookie = NoCookie THEN jar
    ELSE {c \in jar : ~(c.domain = host /\ c.name = cookie.name)}
         \cup {[domain |-> host, name |-> cookie.name, value |-> cookie.value]}

\* the session after session.get(u) met net: no request is sent without a host
session_after(sess, host, net) ==
    IF ~host.ok \/ host.value = <<>> THEN sess
    ELSE [sess EXCEPT !.cookies = jar_after(@, host.value, set_cookie_of(net))]

-----------------------------------------------------------------------------
(* APIKeyManager (auth.py).  The dict api_keys is the sequence of its       *)
(* entries in insertion order; a key is a sequence of characters.           *)

DEFAULT_API_KEY == <<"d", "e", "v", "-", "k", "e", "y", "-", "1", "2", "3", "4", "5">>
S_sk == <<"s", "k", "-">>
S_dots == <<".", ".", ".">>
S_Bearer == <<"B", "e", "a", "r", "e", "r", " ">>

NoKeyInfo == [name |-> None, created_at |-> None, active |-> FALSE]

KeyInfo(name) == [name |-> name, created_at |-> "utcnow", active |-> TRUE]

\* the positions of a key in the dict (at most one)
key_positions(keys, key) == {i \in DOMAIN keys : keys[i].key = key}

\* key in self.api_keys
key_in(keys, key) == key_positions(keys, key) # {}

\* self.api_keys[key] = info: an existing key keeps its place
dict_set(keys, key, info) ==
    IF key_in(keys, key)
    THEN [i \in DOMAIN keys |-> IF keys[i].key = key THEN [key |-> key, info |-> info]
                                 ELSE keys[i]]
    ELSE Append(keys, [key |-> key, info |-> info])

\* self.api_keys.get(key)
dict_get(keys, key) ==
    IF key_in(keys, key) THEN keys[CHOOSE i \in key_positions(keys, key) : TRUE].info
    ELSE NoKeyInfo

\* the loop over API_KEYS.split(','), lines 26-34
RECURSIVE load_env_keys(_, _)
load_env_keys(keys, parts) ==
    IF parts = <<>> THEN keys
    ELSE load_env_keys(
             IF strip(Head(parts)) # <<>>
             THEN dict_set(keys, strip(Head(parts)), KeyInfo(<<"e", "n", "v", "_", "k", "e", "y">>))
             ELSE keys,
             Tail(parts))

\* name of a line of the keys file, lines 44-46
file_key_name(parts) ==
    IF Len(parts) > 1 THEN strip(parts[2]) ELSE <<"f", "i", "l", "e", "_", "k", "e", "y">>

\* the loop over the lines of the keys file, lines 41-51
RECURSIVE load_file_keys(_, _)
load_file_keys(keys, lines) ==
    IF lines = <<>> THEN keys
    ELSE load_file_keys(
             IF strip(Head(lines)) # <<>> /\ ~startswith(strip(Head(lines)), <<"#">>)
             THEN dict_set(keys, strip(split(strip(Head(lines)), <<"|">>)[1]),
                           KeyInfo(file_key_name(split(strip(Head(lines)), <<"|">>))))
             ELSE keys,
             Tail(lines))

\* the default key when nothing was configured, lines 56-63
or_default_key(keys) ==
    IF keys = <<>>
    THEN dict_set(keys, DEFAULT_API_KEY, KeyInfo(<<"d", "e", "f", "a", "u", "l", "t">>))
    ELSE keys

\* APIKeyManager._load_api_keys(): env_keys is os.getenv('API_KEYS', ''),
\* file_lines the lines of the keys file (none when it does not exist)
_load_api_keys(env_keys, file_lines) ==
    or_default_key(
        load_file_keys(
            IF env_keys # <<>> THEN load_env_keys(<<>>, split(env_keys, <<",">>)) ELSE <<>>,
            file_lines))

\* APIKeyManager.validate_api_key(api_key): the key info, or NoKeyInfo for None
validate_api_key(keys, api_key) ==
    IF api_key = NoneSeq \/ api_key = <<>> THEN NoKeyInfo
    ELSE IF dict_get(keys, api_key).active THEN dict_get(keys, api_key)
    ELSE NoKeyInfo

\* APIKeyManager.generate_api_key(name); token is secrets.token_urlsafe(32)
generate_api_key(keys, name, token) ==
    [keys |-> dict_set(keys, S_sk \o token, KeyInfo(name)), key |-> S_sk \o token]

\* revoke_api_key flipping the flag (active = not active) instead of clearing it
revoke_api_key_toggle(keys, api_key) ==
    IF key_in(keys, api_key)
    THEN [keys |-> [i \in DOMAIN keys |->
                       IF keys[i].key = api_key
                       THEN [keys[i] EXCEPT !.info.active = ~@] ELSE keys[i]],
          revoked |-> TRUE]
    ELSE [keys |-> keys, revoked |-> FALSE]

\* APIKeyManager.revoke_api_key(api_key)
revoke_api_key(keys, api_key) ==
    IF key_in(keys, api_key)
    THEN [keys |-> [i \in DOMAIN keys |->
                       IF keys[i].key = api_key
                       THEN [keys[i] EXCEPT !.info.active = FALSE] ELSE keys[i]],
          revoked |-> TRUE]
    ELSE [keys |-> keys, revoked |-> FALSE]

\* key[:8]
first_8(key) == SubSeq(key, 1, IF Len(key) < 8 THEN Len(key) ELSE 8)

\* key[-4:]
last_4(key) == SubSeq(key, IF Len(key) < 4 THEN 1 ELSE Len(key) - 3, Len(key))

\* key[:8] + '...' + key[-4:]
key_id(key) == first_8(key) \o S_dots \o last_4(key)

\* APIKeyManager.list_api_keys()
list_api_keys(keys) ==
    [i \in DOMAIN keys |->
       [key_id |-> key_id(keys[i].key), name |-> keys[i].info.name,
        created_at |-> keys[i].info.created_at, active |-> keys[i].info.active]]

\* what the server holds before any request: no call in progress, nothing served
NoCall == [pc |-> "idle"]
NoRequest == [kind |-> "none"]

-----------------------------------------------------------------------------
(* Actions *)

\* URLScraper.scrape(url), lines 26-32: take start_time, validate the url
URLScraper_scrape(Urls) ==
    /\ pc = "idle"
    /\ \E u \in Urls :
         LET v == validate_url(u)
         IN  /\ arg' = u
             /\ url' = v.url
             /\ IF truthy(v.error)
                THEN /\ result' = URLScraper_create_empty_response(v.error, 0)
                     /\ pc' = "done"
                ELSE /\ result' = NoResult
                     /\ pc' = "fetch"
    /\ op' = "urls"
    /\ gets' = 0
    /\ elapsed' = 0
    /\ response' = NoResponse
    /\ caught' = NoException
    /\ UNCHANGED <<MAX_RETRIES, session, service>>

\* TextScraper.scrape(url), lines 26-32: take start_time, validate the url
TextScraper_scrape(Urls) ==
    /\ pc = "idle"
    /\ \E u \in Urls :
         LET v == validate_url(u)
         IN  /\ arg' = u
             /\ url' = v.url
             /\ IF truthy(v.error)
                THEN /\ result' = TextScraper_create_empty_response(v.error, 0)
                     /\ pc' = "done"
                ELSE /\ result' = NoResult
                     /\ pc' = "fetch"
    /\ op' = "text"
    /\ gets' = 0
    /\ elapsed' = 0
    /\ response' = NoResponse
    /\ caught' = NoException
    /\ UNCHANGED <<MAX_RETRIES, session, service>>

\* what session.get and raise_for_status make of what the network does, for a
\* url with the given host: the exception raised, or the response returned
outcome_for(host, net) ==
    IF ~host.ok \/ host.value = <<>> THEN Raise("InvalidURL", "No host supplied")
    ELSE IF net.kind = "raise" THEN [ok |-> FALSE, exc |-> net.exc]
    ELSE IF net.status >= 400 /\ net.status < 600
    THEN Raise("HTTPError", ToString(net.status) \o " Error")
    ELSE Ok(net)

fetch_outcome(u, net) == outcome_for(netloc_of(u), net)

\* BaseScraper.get_page_response(url), called once by scrape(); an exception
\* is caught by scrape() and returned through handle_request_errors
get_page_response(Web) ==
    /\ pc = "fetch"
    /\ gets' = gets + 1
    /\ elapsed' = elapsed + 1
    /\ \E net \in Web :
         /\ session' = [session EXCEPT ![op] = session_after(@, netloc_of(url), net)]
         /\ LET r == fetch_outcome(url, net)
            IN  IF r.ok
                THEN /\ response' = r.value
                     /\ result' = NoResult
                     /\ caught' = NoException
                     /\ pc' = "parse"
                ELSE /\ response' = NoResponse
                     /\ result' = handle_request_errors(r.exc, elapsed + 1)
                     /\ caught' = r.exc
                     /\ pc' = "done"
    /\ UNCHANGED <<op, arg, url, MAX_RETRIES, service>>

\* URLScraper.scrape, from the parse to the return
URLScraper_extract ==
    /\ pc = "parse"
    /\ op = "urls"
    /\ result' = URLScraper_finish(response, url, elapsed + 1)
    /\ caught' = raised_by(URLScraper_links(response, url))
    /\ elapsed' = elapsed + 1
    /\ pc' = "done"
    /\ UNCHANGED <<op, arg, url, response, gets, MAX_RETRIES, session, service>>

\* TextScraper.scrape, from the size check to the return
TextScraper_extract ==
    /\ pc = "parse"
    /\ op = "text"
    /\ result' = TextScraper_finish(response, elapsed + 1)
    /\ caught' = TextScraper_raised(response)
    /\ elapsed' = elapsed + 1
    /\ pc' = "done"
    /\ UNCHANGED <<op, arg, url, response, gets, MAX_RETRIES, session, service>>

\* the caller takes the envelope; the scraper is ready for the next call
scrape_return ==
    /\ pc = "done"
    /\ pc' = "idle"
    /\ op' = "none"
    /\ arg' = <<>>
    /\ url' = <<>>
    /\ response' = NoResponse
    /\ gets' = 0
    /\ elapsed' = 0
    /\ result' = NoResult
    /\ caught' = NoException
    /\ UNCHANGED <<MAX_RETRIES, session, service>>

Idle ==
    /\ pc = "idle"
    /\ op = "none"
    /\ arg = <<>>
    /\ url = <<>>
    /\ response = NoResponse
    /\ gets = 0
    /\ elapsed = 0
    /\ result = NoResult
    /\ caught = NoException

(* scrape() calls on the threads of the server.  app.py builds url_scraper  *)
(* and text_scraper once (lines 28-29) and every request thread calls the   *)
(* same two objects, so the calls of a scraper share its session.           *)

engine == <<pc, op, arg, url, response, gets, elapsed, result, caught, MAX_RETRIES>>

\* X._create_empty_response of the scraper o
empty_response(o, error_msg, dt) ==
    IF o = "urls" THEN URLScraper_create_empty_response(error_msg, dt)
    ELSE TextScraper_create_empty_response(error_msg, dt)

\* scrape(u) of scraper o up to the fetch, lines 26-32
started_call(o, u, v) ==
    [pc |-> IF truthy(v.error) THEN "done" ELSE "fetch",
     op |-> o, arg |-> u, url |-> v.url, gets |-> 0, cookie_header |-> {},
     response |-> NoResponse,
     result |-> IF truthy(v.error) THEN empty_response(o, v.error, 0) ELSE NoResult]

\* a thread enters url_scraper.scrape(u) (o = "urls") or text_scraper.scrape(u)
thread_scrape(t, o, Urls) ==
    /\ calls[t].pc = "idle"
    /\ \E u \in Urls : calls' = [calls EXCEPT ![t] = started_call(o, u, validate_url(u))]
    /\ UNCHANGED <<engine, session, api_keys, served>>

\* session.get, first half: the request is prepared with the cookies the jar
\* holds for the host and sent
sent_call(call, sess) ==
    IF call.pc # "fetch" THEN call
    ELSE [call EXCEPT !.pc = "wait",
                      !.gets = 1,
                      !.cookie_header =
                          IF netloc_of(call.url).ok
                          THEN cookies_for(sess, netloc_of(call.url).value)
                          ELSE {}]

thread_send(t) ==
    /\ calls[t].pc = "fetch"
    /\ calls' = [calls EXCEPT ![t] = sent_call(@, session[calls[t].op])]
    /\ UNCHANGED <<engine, session, api_keys, served>>

\* the call after get_page_response returned or raised
fetched_call(call, r) ==
    IF r.ok THEN [call EXCEPT !.pc = "parse", !.response = r.value]
    ELSE [call EXCEPT !.pc = "done", !.result = handle_request_errors(r.exc, 1)]

\* a call that sent its request, after the network answered with net
received_call(call, net) ==
    IF call.pc # "wait" THEN call ELSE fetched_call(call, fetch_outcome(call.url, net))

\* session.get, second half, and raise_for_status: the response arrives and
\* its Set-Cookie header goes into the jar of the scraper's session
thread_receive(t, Web) ==
    /\ calls[t].pc = "wait"
    /\ \E net \in Web :
         /\ session' = [session EXCEPT ![calls[t].op] =
                           session_after(@, netloc_of(calls[t].url), net)]
         /\ calls' = [calls EXCEPT ![t] = received_call(@, net)]
    /\ UNCHANGED <<engine, api_keys, served>>

\* scrape() from the parse to the return
extracted_call(call) ==
    IF call.pc # "parse" THEN call
    ELSE [call EXCEPT !.pc = "done",
                      !.result = IF call.op = "urls"
                                 THEN URLScraper_finish(call.response, call.url, 2)
                                 ELSE TextScraper_finish(call.response, 2)]

thread_extract(t) ==
    /\ calls[t].pc = "parse"
    /\ calls' = [calls EXCEPT ![t] = extracted_call(@)]
    /\ UNCHANGED <<engine, session, api_keys, served>>

\* the thread takes the envelope and is free for the next request
thread_return(t) ==
    /\ calls[t].pc = "done"
    /\ calls' = [calls EXCEPT ![t] = NoCall]
    /\ UNCHANGED <<engine, session, api_keys, served>>

-----------------------------------------------------------------------------
(* The routes of app.py, each behind @require_api_key (auth.py 146-186).    *)
(* A request is its route, its X-API-Key and Authorization headers (NoneSeq *)
(* for a header it lacks) and the value request.get_json() returns.  The    *)
(* server handles it in one step and keeps, in served, the response and     *)
(* what the handler did on the way.                                         *)

RATE_LIMIT_DELAY == 1

JsonNull == [null |-> TRUE, obj |-> <<>>]
JsonObject(obj) == [null |-> FALSE, obj |-> obj]

\* data.get(field) of `data = request.get_json() or {}`
data_get(data, field) ==
    IF ~data.null /\ field \in DOMAIN data.obj THEN data.obj[field] ELSE NoneSeq

\* the decorator taking the token of an Authorization header of any scheme
\* (auth_header[7:] without the startswith('Bearer ') test)
presented_key_any_scheme(req) ==
    IF req.x_api_key # NoneSeq /\ req.x_api_key # <<>> THEN req.x_api_key
    ELSE IF req.authorization # NoneSeq /\ req.authorization # <<>>
    THEN SubSeq(req.authorization, Len(S_Bearer) + 1, Len(req.authorization))
    ELSE req.x_api_key

\* the api_key that decorated_function hands to validate_api_key, lines 159-165
presented_key(req) ==
    IF req.x_api_key # NoneSeq /\ req.x_api_key # <<>> THEN req.x_api_key
    ELSE IF req.authorization # NoneSeq /\ startswith(req.authorization, S_Bearer)
    THEN SubSeq(req.authorization, Len(S_Bearer) + 1, Len(req.authorization))
    ELSE req.x_api_key

\* `if not key_info:` of the decorator
authenticated(keys, req) == validate_api_key(keys, presented_key(req)) # NoKeyInfo

\* the 401 response, lines 171-176
unauthorized ==
    [status |-> 401,
     json |-> [success |-> FALSE,
               error |-> "Invalid or missing API key",
               message |-> "Please provide a valid API key in the X-API-Key header or Authorization header",
               timestamp |-> "utcnow"]]

\* what the server did for a request: the response sent, the number of
\* validate_url_request calls, the seconds slept and the session.get calls
handled(req, resp, validations, slept, fetches) ==
    [kind |-> "served", request |-> req, status |-> resp.status, json |-> resp.json,
     validations |-> validations, slept |-> slept, gets |-> fetches]

\* validate_url_request without its `if not url` test
validate_url_request_no_empty_check(data) ==
    IF data.null \/ DOMAIN data.obj = {} \/ "url" \notin DOMAIN data.obj
    THEN Ok([url |-> NoneSeq, error |-> "Missing required field: url"])
    ELSE IF data.obj["url"] = NoneSeq
    THEN Raise("AttributeError", "'NoneType' object has no attribute 'strip'")
    ELSE Ok([url |-> IF startswith_any(strip(data.obj["url"]), {S_http, S_https})
                     THEN strip(data.obj["url"])
                     ELSE S_https \o strip(data.obj["url"]),
             error |-> None])

\* validate_url_request(data) -> (url, error); a url that is no str has no strip()
validate_url_request(data) ==
    IF data.null \/ DOMAIN data.obj = {} \/ "url" \notin DOMAIN data.obj
    THEN Ok([url |-> NoneSeq, error |-> "Missing required field: url"])
    ELSE IF data.obj["url"] = NoneSeq
    THEN Raise("AttributeError", "'NoneType' object has no attribute 'strip'")
    ELSE IF strip(data.obj["url"]) = <<>>
    THEN Ok([url |-> NoneSeq, error |-> "URL cannot be empty"])
    ELSE Ok([url |-> IF startswith_any(strip(data.obj["url"]), {S_http, S_https})
                     THEN strip(data.obj["url"])
                     ELSE S_https \o strip(data.obj["url"]),
             error |-> None])

\* the failure envelope the two scrape routes build themselves
route_failure(o, status, error) ==
    [status |-> status,
     json |-> IF o = "urls"
              THEN [success |-> FALSE, urls |-> <<>>, count |-> 0, processing_time |-> 0,
                    timestamp |-> "utcnow", error |-> error]
              ELSE [success |-> FALSE, text |-> <<>>, title |-> <<>>,
                    meta_description |-> <<>>, headings |-> EmptyDict, word_count |-> 0,
                    character_count |-> 0, processing_time |-> 0,
                    timestamp |-> "utcnow", error |-> error]]

\* scraper.scrape(u) from entry to return, the fetch meeting net
scrape_call(o, u, net, sess) ==
    extracted_call(
        received_call(sent_call(started_call(o, u, validate_url(u)), sess), net))

\* status_code = 200 if result['success'] else 400; arg is the url the route
\* passed to scrape(), url what validate_url made of it
scraped(req, call) ==
    handled(req, [status |-> IF call.result.success THEN 200 ELSE 400, json |-> call.result],
            1, RATE_LIMIT_DELAY, call.gets)
    @@ [arg |-> call.arg, url |-> call.url]

\* the body of api_scrape_urls / api_scrape_text after the decorator let it run
scrape_handler(o, req, net, sess, v) ==
    IF ~v.ok
    THEN handled(req, route_failure(o, 500, "Internal server error: " \o v.exc.msg), 1, 0, 0)
    ELSE IF truthy(v.value.error)
    THEN handled(req, route_failure(o, 400, v.value.error), 1, 0, 0)
    ELSE scraped(req, scrape_call(o, v.value.url, net, sess))

\* a POST to /api/scrape/urls (o = "urls") or /api/scrape/text, decorator included
scrape_route(o, req, net, keys, sess) ==
    IF ~authenticated(keys, req) THEN handled(req, unauthorized, 0, 0, 0)
    ELSE scrape_handler(o, req, net, sess, validate_url_request(req.data))

\* the session of scraper o after the request was handled
session_served(sess, o, done, net) ==
    IF done.gets = 0 THEN sess
    ELSE session_after(sess, netloc_of(validate_url_request(done.request.data).value.url), net)

api_scrape_urls(Requests, Web) ==
    /\ \E req \in Requests, net \in Web :
         /\ req.route = "/api/scrape/urls"
         /\ served' = scrape_route("urls", req, net, api_keys, session.urls)
         /\ session' = [session EXCEPT !.urls = session_served(@, "urls", served', net)]
    /\ UNCHANGED <<engine, calls, api_keys>>

api_scrape_text(Requests, Web) ==
    /\ \E req \in Requests, net \in Web :
         /\ req.route = "/api/scrape/text"
         /\ served' = scrape_route("text", req, net, api_keys, session.text)
         /\ session' = [session EXCEPT !.text = session_served(@, "text", served', net)]
    /\ UNCHANGED <<engine, calls, api_keys>>

\* GET /api/keys
route_list_api_keys(Requests) ==
    /\ \E req \in Requests :
         /\ req.route = "/api/keys"
         /\ served' =
              IF ~authenticated(api_keys, req) THEN handled(req, unauthorized, 0, 0, 0)
              ELSE handled(req, [status |-> 200,
                                 json |-> [success |-> TRUE,
                                           keys |-> list_api_keys(api_keys),
                                           count |-> Len(list_api_keys(api_keys)),
                                           timestamp |-> "utcnow"]], 0, 0, 0)
    /\ UNCHANGED <<engine, session, calls, api_keys>>

\* name = data.get('name', 'generated_key')
name_of(data) ==
    IF data_get(data, "name") = NoneSeq
    THEN <<"g", "e", "n", "e", "r", "a", "t", "e", "d", "_", "k", "e", "y">>
    ELSE data_get(data, "name")

\* the entries generate_api_key made
generated(keys) == SelectSeq(keys, LAMBDA e : startswith(e.key, S_sk))

\* POST /api/keys/generate; the server has room for MaxKeys generated keys
route_generate_api_key(Requests, Tokens) ==
    /\ \E req \in Requests, token \in Tokens :
         /\ req.route = "/api/keys/generate"
         /\ IF ~authenticated(api_keys, req)
            THEN /\ served' = handled(req, unauthorized, 0, 0, 0)
                 /\ UNCHANGED api_keys
            ELSE /\ Len(generated(dict_set(api_keys, S_sk \o token, KeyInfo(<<>>)))) <= MaxKeys
                 /\ api_keys' = generate_api_key(api_keys, name_of(req.data), token).keys
                 /\ served' =
                      handled(req, [status |-> 201,
                                    json |-> [success |-> TRUE,
                                              message |-> "API key generated successfully",
                                              key |-> S_sk \o token,
                                              name |-> name_of(req.data),
                                              timestamp |-> "utcnow",
                                              warning |-> "Store this key securely. It will not be shown again."]],
                              0, 0, 0)
    /\ UNCHANGED <<engine, session, calls>>

\* the response of revoke_api_key for the outcome of the manager's revoke
revoke_response(req, keys) ==
    IF data_get(req.data, "key") = NoneSeq \/ data_get(req.data, "key") = <<>>
    THEN [status |-> 400,
          json |-> [success |-> FALSE, error |-> "Missing required field: key",
                    timestamp |-> "utcnow"]]
    ELSE IF revoke_api_key(keys, data_get(req.data, "key")).revoked
    THEN [status |-> 200,
          json |-> [success |-> TRUE, message |-> "API key revoked successfully",
                    timestamp |-> "utcnow"]]
    ELSE [status |-> 404,
          json |-> [success |-> FALSE, error |-> "API key not found",
                    timestamp |-> "utcnow"]]

\* POST /api/keys/revoke
route_revoke_api_key(Requests) ==
    /\ \E req \in Requests :
         /\ req.route = "/api/keys/revoke"
         /\ IF ~authenticated(api_keys, req)
            THEN /\ served' = handled(req, unauthorized, 0, 0, 0)
                 /\ UNCHANGED api_keys
            ELSE /\ served' = handled(req, revoke_response(req, api_keys), 0, 0, 0)
                 /\ api_keys' = revoke_api_key(api_keys, data_get(req.data, "key")).keys
    /\ UNCHANGED <<engine, session, calls>>

-----------------------------------------------------------------------------
(* What callers pass and what the network serves, within the bounds *)

U_site == <<"s", "i", "t", "e", ".", "c", "o", "m">>
U_base == <<"h", "t", "t", "p", "s", ":", "/", "/", "s", "i", "t", "e", ".", "c", "o", "m", "/", "x">>
U_plain == <<"h", "t", "t", "p", ":", "/", "/", "s", "i", "t", "e", ".", "c", "o", "m">>

H_report == <<"/", "d", "o", "c", "s", "/", "r", "e", "p", "o", "r", "t", ".", "p", "d", "f">>
H_other == <<"h", "t", "t", "p", "s", ":", "/", "/", "o", "t", "h", "e", "r", ".", "o", "r", "g", "/", "a">>
H_bad == <<"h", "t", "t", "p", ":", "/", "/", "[", ":", ":", "1">>

T_Example == <<"E", "x", "a", "m", "p", "l", "e">>
T_Fallback == <<"F", "a", "l", "l", "b", "a", "c", "k">>
T_navbar == <<"n", "a", "v", "b", "a", "r">>

\* the depths the node after document d may take: a child only of an element
\* that can hold children
NextDepths(d) ==
    IF d = <<>> THEN {0}
    ELSE LET last == d[Len(d)]
         IN  0..(last.depth + (IF last.tag \in VoidTags THEN 0 ELSE 1))

\* the documents of exactly k nodes over a catalogue of nodes
RECURSIVE DocsOfLen(_, _)
DocsOfLen(catalogue, k) ==
    IF k = 0 THEN {<<>>}
    ELSE LET choices == {t \in DocsOfLen(catalogue, k - 1) \X catalogue \X (0..(k - 1)) :
                           t[3] \in NextDepths(t[1])}
         IN  {Append(t[1], [t[2] EXCEPT !.depth = t[3]]) : t \in choices}

DocsUpTo(catalogue, n) == UNION {DocsOfLen(catalogue, k) : k \in 0..n}

\* a 200 response whose body parses to doc
Page(doc) ==
    [kind |-> "response", status |-> 200, content_length |-> MAX_CONTENT_LENGTH - 1,
     rejected |-> FALSE, doc |-> doc]

\* whitespace strings of at most n characters
Pads(n) == UNION {[1..k -> {" ", "\t", "\n"}] : k \in 0..n}

(* the whole engine: every failure kind, both scrapers *)
MainUrls == { <<>>, <<" ">>, U_site, <<" ">> \o U_base \o <<" ">> }

D_page ==
    << [Element("title") EXCEPT !.str = T_Example],
       [Element("h1") EXCEPT !.str = <<"A">>],
       [Element("a") EXCEPT !.href = H_report, !.str = <<"G", "o">>] >>
D_bad == << [Element("a") EXCEPT !.href = H_bad] >>
MainDocs == { <<>>, D_page, D_bad }

NetworkFailures ==
    { [kind |-> "raise", exc |-> [type |-> "ReadTimeout", msg |-> "Read timed out."]],
      [kind |-> "raise", exc |-> [type |-> "ConnectTimeout", msg |-> "timed out"]],
      [kind |-> "raise", exc |-> [type |-> "ConnectionError", msg |-> ""]],
      [kind |-> "raise", exc |-> [type |-> "TooManyRedirects", msg |-> "Exceeded 30 redirects."]] }

MainWeb ==
    NetworkFailures
    \cup { [kind |-> "response", status |-> s, content_length |-> n,
            rejected |-> FALSE, doc |-> d]
           : s \in {200, 300, 404},
             n \in {MAX_CONTENT_LENGTH - 1, MAX_CONTENT_LENGTH, MAX_CONTENT_LENGTH + 1},
             d \in MainDocs }
    \cup { [kind |-> "response", status |-> 200, content_length |-> n,
            rejected |-> TRUE, doc |-> <<>>]
           : n \in {MAX_CONTENT_LENGTH, MAX_CONTENT_LENGTH + 1} }

(* url arguments with whitespace around them *)
UrlCores == { <<>>, U_site, U_plain, U_base }
PaddedUrls == { l \o c \o r : l \in Pads(MaxPad), c \in UrlCores, r \in Pads(MaxPad) }
SmallWeb ==
    { [kind |-> "raise", exc |-> [type |-> "ReadTimeout", msg |-> "Read timed out."]],
      Page(D_page) }

(* documents of anchors, for the link extractor *)
LinkCatalogue ==
    { [Element("a") EXCEPT !.href = H_report, !.str = <<"G", "o">>],
      [Element("a") EXCEPT !.href = H_other, !.title = <<"T">>,
                           !.class = <<"b", "t", "n", " ", " ", "x">>],
      [Element("a") EXCEPT !.href = H_bad],
      [Element("a") EXCEPT !.id = <<"t", "o", "p">>],
      TextNode(<<" ", "B", " ">>) }
LinkDocs == DocsUpTo(LinkCatalogue, MaxAnchors)
LinkUrls == { U_base }
LinkWeb == { Page(d) : d \in LinkDocs }

(* documents with title, meta and h1 elements, for the metadata chains *)
MetaCatalogue ==
    { [Element("title") EXCEPT !.str = T_Example],
      Element("title"),
      [Element("meta") EXCEPT !.property = S_og_title, !.content = T_Fallback],
      [Element("meta") EXCEPT !.name = S_description, !.content = <<>>],
      [Element("meta") EXCEPT !.property = S_og_description, !.content = <<"O">>],
      [Element("h1") EXCEPT !.str = <<"A">>] }
MetaDocs == DocsUpTo(MetaCatalogue, MaxNodes)
MetaWeb == { Page(d) : d \in MetaDocs }

(* documents with headings inside and outside noise elements *)
HeadingCatalogue ==
    { [Element("title") EXCEPT !.str = T_Example],
      [Element("h1") EXCEPT !.str = <<"A">>],
      [Element("h1") EXCEPT !.str = <<" ", "B", " ">>],
      [Element("h2") EXCEPT !.str = <<"C">>, !.class = T_navbar],
      Element("header") }
HeadingDocs == DocsUpTo(HeadingCatalogue, MaxNodes)
HeadingWeb == { Page(d) : d \in HeadingDocs }

(* raw page texts, for _clean_text *)
CleanAlphabet == {"a", "b", " ", "\n", "\t"}
RawTexts == UNION {[1..k -> CleanAlphabet] : k \in 0..MaxLen}
RawDocs == { IF t = <<>> THEN <<>> ELSE <<TextNode(t)>> : t \in RawTexts }
RawWeb == { Page(d) : d \in RawDocs }

(* documents with noise elements, nested and matching several rules *)
NoiseCatalogue ==
    { [Element("nav") EXCEPT !.str = <<"N">>, !.class = S_menu, !.id = S_header],
      Element("header"),
      [Element("div") EXCEPT !.str = <<"S">>, !.class = S_sidebar],
      [Element("span") EXCEPT !.str = <<"f">>, !.id = S_footer],
      [Element("script") EXCEPT !.str = <<"x">>],
      [Element("p") EXCEPT !.str = <<"a">>] }
NoiseDocs == DocsUpTo(NoiseCatalogue, MaxNodes)
NoiseWeb == { Page(d) : d \in NoiseDocs }

(* anchors of every link type, on pages of several sites *)
H_mailto_fragment == <<"m", "a", "i", "l", "t", "o", ":", "#", "f", "r", "a", "g", "m", "e", "n", "t">>
H_mailto_pdf == <<"m", "a", "i", "l", "t", "o", ":", "a", ".", "p", "d", "f">>
H_tel_zip == <<"t", "e", "l", ":", "1", ".", "z", "i", "p">>
H_ftp_rar == <<"f", "t", "p", ":", "/", "/", "h", "/", "a", ".", "r", "a", "r">>
H_ftp_doc == <<"f", "t", "p", ":", "a", ".", "d", "o", "c">>
H_anchor_pdf == <<"#", "a", ".", "p", "d", "f">>
H_javascript_zip == <<"j", "a", "v", "a", "s", "c", "r", "i", "p", "t", ":", "a", ".", "z", "i", "p">>
H_upper_pdf == <<"A", ".", "P", "D", "F">>
H_same_host_port == <<"h", "t", "t", "p", "s", ":", "/", "/", "s", "i", "t", "e", ".", "c", "o", "m", ":", "4", "4", "3", "/", "a">>
U_other == <<"h", "t", "t", "p", "s", ":", "/", "/", "o", "t", "h", "e", "r", ".", "o", "r", "g", "/">>
U_plain_root == <<"h", "t", "t", "p", ":", "/", "/", "s", "i", "t", "e", ".", "c", "o", "m", "/">>

ClassifyHrefs ==
    { H_mailto_fragment, H_mailto_pdf, H_tel_zip, H_ftp_rar, H_ftp_doc, H_anchor_pdf,
      H_javascript_zip, H_upper_pdf, H_same_host_port, H_report, H_other }
ClassifyCatalogue == { [Element("a") EXCEPT !.href = h] : h \in ClassifyHrefs }
ClassifyDocs == UNION {[1..k -> ClassifyCatalogue] : k \in 0..MaxLinks}
ClassifyUrls == { U_base, U_other, U_plain_root }
ClassifyWeb == { Page(d) : d \in ClassifyDocs }

(* pages of one site, one of which sets a cookie, for calls in progress *)
(* at the same time *)
ConcurrentUrls == { U_base }
ConcurrentWeb ==
    { [Page(<<>>) EXCEPT !.content_length = 0]
          @@ [set_cookie |-> [name |-> "sid", value |-> "1"]],
      Page(D_bad),
      [kind |-> "raise", exc |-> [type |-> "ReadTimeout", msg |-> "Read timed out."]] }

(* environments that configure the keys, and requests with and without a *)
(* key *)
K_secret == <<"s", "e", "c", "r", "e", "t">>
K_team == <<"t", "e", "a", "m", "-", "k", "e", "y", "-", "0", "0", "0", "1">>
K_unknown == <<"n", "o", "p", "e">>
S_Digest == <<"D", "i", "g", "e", "s", "t", " ">>

Env(env_keys, file_lines) == [env_keys |-> env_keys, file_lines |-> file_lines]
E_none == Env(<<>>, <<>>)
E_env == Env(<<"s", "e", "c", "r", "e", "t", ",", " ", "t", "e", "a", "m", "-", "k", "e", "y", "-", "0", "0", "0", "1", ",">>, <<>>)

Request(route, x_api_key, authorization, data) ==
    [route |-> route, x_api_key |-> x_api_key, authorization |-> authorization, data |-> data]

UrlBody(u) == JsonObject("url" :> u)
KeyBody(k) == JsonObject("key" :> k)

AuthEnvs == { E_none, E_env }
AuthKeys == { DEFAULT_API_KEY, K_secret, K_unknown }
AuthHeaders ==
    { <<NoneSeq, NoneSeq>>, <<<<>>, NoneSeq>>, <<NoneSeq, S_Bearer>> }
    \cup { <<k, NoneSeq>> : k \in AuthKeys }
    \cup { <<NoneSeq, S_Bearer \o k>> : k \in AuthKeys }
    \cup { <<NoneSeq, S_Digest \o k>> : k \in AuthKeys }
    \cup { <<<<>>, S_Bearer \o k>> : k \in AuthKeys }
    \cup { <<K_unknown, S_Bearer \o K_secret>> }
AuthRequests ==
    { Request(r, h[1], h[2], d) :
        r \in {"/api/scrape/urls", "/api/scrape/text"}, h \in AuthHeaders,
        d \in {UrlBody(U_site), JsonObject(<<>>)} }
    \cup { Request("/api/keys/revoke", k, NoneSeq, KeyBody(j)) :
             k \in AuthKeys, j \in AuthKeys }
AuthWeb ==
    { Page(<<>>),
      [kind |-> "raise", exc |-> [type |-> "ReadTimeout", msg |-> "Read timed out."]] }

(* documents with noise elements and with elements whose class or id spell *)
(* a noise word in another letter case *)
CaseCatalogue ==
    { [Element("aside") EXCEPT !.str = <<"A">>],
      [Element("style") EXCEPT !.str = <<"y">>],
      [Element("div") EXCEPT !.str = <<"U">>, !.class = <<"N", "a", "v", "b", "a", "r">>],
      [Element("div") EXCEPT !.str = <<"M">>, !.id = <<"M", "E", "N", "U">>],
      [Element("div") EXCEPT !.str = <<"c">>, !.class = <<"b", "t", "n", " ", "n", "a", "v">>],
      [Element("span") EXCEPT !.str = <<"h">>, !.id = <<"s", "u", "b", "h", "e", "a", "d", "e", "r">>],
      [Element("p") EXCEPT !.str = <<" ", "b", " ">>],
      TextNode(<<"t">>) }
CaseDocs == DocsUpTo(CaseCatalogue, MaxCaseNodes)
CaseWeb == { Page(d) : d \in CaseDocs }

(* key management: configured keys of several lengths, two tokens that    *)
(* secrets.token_urlsafe(32) can return (43 characters, alike in their     *)
(* first five and last four), and requests to the key routes               *)
K_ops == <<"o", "p", "s", "-", "k", "e", "y", "-", "0", "0", "0", "2">>
E_file == Env(<<>>, << <<"#", " ", "k", "e", "y", "s", "\n">>, <<"o", "p", "s", "-", "k", "e", "y", "-", "0", "0", "0", "2", "|", " ", "o", "p", "s", " ", "\n">>, <<"\n">> >>)
Token_x == <<"A", "b", "C", "d", "E", "x", "x", "x", "x", "x", "x", "x", "x", "x", "x", "x", "x", "x", "x", "x", "x", "x", "x", "x", "x", "x", "x", "x", "x", "x", "x", "x", "x", "x", "x", "x", "x", "x", "x", "w", "X", "y", "Z">>
Token_y == <<"A", "b", "C", "d", "E", "y", "y", "y", "y", "y", "y", "y", "y", "y", "y", "y", "y", "y", "y", "y", "y", "y", "y", "y", "y", "y", "y", "y", "y", "y", "y", "y", "y", "y", "y", "y", "y", "y", "y", "w", "X", "y", "Z">>
KeyTokens == { Token_x, Token_y }
KeyEnvs == { E_none, E_env, E_file }
KeyUniverse ==
    { DEFAULT_API_KEY, K_secret, K_ops } \cup { S_sk \o t : t \in KeyTokens }
KeyRequests ==
    { Request("/api/keys", k, NoneSeq, JsonNull) : k \in KeyUniverse }
    \cup { Request("/api/keys/generate", k, NoneSeq, d) :
             k \in KeyUniverse, d \in {JsonNull, JsonObject("name" :> <<"c", "i">>)} }
    \cup { Request("/api/keys/revoke", k, NoneSeq, KeyBody(j)) :
             k \in KeyUniverse, j \in KeyUniverse }
    \cup { Request("/api/keys/revoke", k, NoneSeq, JsonNull) : k \in KeyUniverse }

(* request bodies with a url in every state of repair, from a caller *)
(* holding the default key *)
RoutePads == { <<>>, <<" ">>, <<"\t", "\n">> }
RouteUrls == { l \o c \o r : l \in RoutePads, c \in UrlCores, r \in RoutePads }
RouteBodies ==
    { JsonNull, JsonObject(<<>>), JsonObject("name" :> U_site), UrlBody(NoneSeq) }
    \cup { UrlBody(u) : u \in RouteUrls }
RouteRequests ==
    { Request(r, h[1], h[2], d) :
        r \in {"/api/scrape/urls", "/api/scrape/text"},
        h \in { <<DEFAULT_API_KEY, NoneSeq>> },
        d \in RouteBodies }

-----------------------------------------------------------------------------
(* Specifications *)

\* the server after import: two scrapers with a session each, the keys of an
\* environment that configures none, no request yet
Started ==
    /\ session = [urls |-> BaseScraper_session, text |-> BaseScraper_session]
    /\ calls = [t \in 1..MaxThreads |-> NoCall]
    /\ api_keys = _load_api_keys(<<>>, <<>>)
    /\ served = NoRequest

Init == Idle /\ Started /\ MAX_RETRIES \in 0..MaxRetriesSetting

InitDefault == Idle /\ Started /\ MAX_RETRIES = DEFAULT_MAX_RETRIES

\* both scrapers, every failure kind
Next ==
    \/ URLScraper_scrape(MainUrls)
    \/ TextScraper_scrape(MainUrls)
    \/ get_page_response(MainWeb)
    \/ URLScraper_extract
    \/ TextScraper_extract
    \/ scrape_return

Spec == Init /\ [][Next]_vars

\* both scrapers on url arguments with whitespace around them
NextValidate ==
    \/ URLScraper_scrape(PaddedUrls)
    \/ TextScraper_scrape(PaddedUrls)
    \/ get_page_response(SmallWeb)
    \/ URLScraper_extract
    \/ TextScraper_extract
    \/ scrape_return

SpecValidate == InitDefault /\ [][NextValidate]_vars

\* URLScraper on documents of anchors
NextLinks ==
    \/ URLScraper_scrape(LinkUrls)
    \/ get_page_response(LinkWeb)
    \/ URLScraper_extract
    \/ scrape_return

SpecLinks == InitDefault /\ [][NextLinks]_vars

\* URLScraper on anchors of every link type, from several base urls
NextClassify ==
    \/ URLScraper_scrape(ClassifyUrls)
    \/ get_page_response(ClassifyWeb)
    \/ URLScraper_extract
    \/ scrape_return

SpecClassify == InitDefault /\ [][NextClassify]_vars

\* TextScraper on documents with title, meta and h1 elements
NextMeta ==
    \/ TextScraper_scrape(LinkUrls)
    \/ get_page_response(MetaWeb)
    \/ TextScraper_extract
    \/ scrape_return

SpecMeta == InitDefault /\ [][NextMeta]_vars

\* TextScraper on documents with headings
NextHeadings ==
    \/ TextScraper_scrape(LinkUrls)
    \/ get_page_response(HeadingWeb)
    \/ TextScraper_extract
    \/ scrape_return

SpecHeadings == InitDefault /\ [][NextHeadings]_vars

\* TextScraper on documents with noise elements
NextNoise ==
    \/ TextScraper_scrape(LinkUrls)
    \/ get_page_response(NoiseWeb)
    \/ TextScraper_extract
    \/ scrape_return

SpecNoise == InitDefault /\ [][NextNoise]_vars

\* TextScraper on documents with noise words in several letter cases
NextCase ==
    \/ TextScraper_scrape(LinkUrls)
    \/ get_page_response(CaseWeb)
    \/ TextScraper_extract
    \/ scrape_return

SpecCase == InitDefault /\ [][NextCase]_vars

\* TextScraper on pages that are one raw text
NextClean ==
    \/ TextScraper_scrape(LinkUrls)
    \/ get_page_response(RawWeb)
    \/ TextScraper_extract
    \/ scrape_return

SpecClean == InitDefault /\ [][NextClean]_vars

\* both scrapers called from several threads at once
NextConcurrent ==
    \E t \in 1..MaxThreads :
        \/ thread_scrape(t, "urls", ConcurrentUrls)
        \/ thread_scrape(t, "text", ConcurrentUrls)
        \/ thread_send(t)
        \/ thread_receive(t, ConcurrentWeb)
        \/ thread_extract(t)
        \/ thread_return(t)

SpecConcurrent == InitDefault /\ [][NextConcurrent]_vars

\* the server after import in an environment that configures its keys
StartedIn(Envs) ==
    /\ Idle
    /\ MAX_RETRIES = DEFAULT_MAX_RETRIES
    /\ session = [urls |-> BaseScraper_session, text |-> BaseScraper_session]
    /\ calls = [t \in 1..MaxThreads |-> NoCall]
    /\ api_keys \in {_load_api_keys(e.env_keys, e.file_lines) : e \in Envs}
    /\ served = NoRequest

\* the scrape routes under requests with every kind of credential, and the
\* revoke route
InitAuth == StartedIn(AuthEnvs)

NextAuth ==
    \/ api_scrape_urls(AuthRequests, AuthWeb)
    \/ api_scrape_text(AuthRequests, AuthWeb)
    \/ route_revoke_api_key(AuthRequests)

SpecAuth == InitAuth /\ [][NextAuth]_vars

\* the key routes: list, generate, revoke
InitKeys == StartedIn(KeyEnvs)

NextKeys ==
    \/ route_list_api_keys(KeyRequests)
    \/ route_generate_api_key(KeyRequests, KeyTokens)
    \/ route_revoke_api_key(KeyRequests)

SpecKeys == InitKeys /\ [][NextKeys]_vars

\* the scrape routes under request bodies of every kind
InitRoute == StartedIn({E_none})

NextRoute ==
    \/ api_scrape_urls(RouteRequests, SmallWeb)
    \/ api_scrape_text(RouteRequests, SmallWeb)

SpecRoute == InitRoute /\ [][NextRoute]_vars

-----------------------------------------------------------------------------
(* Properties of the envelope (Spec) *)

UrlPayloadFields == {"urls", "count"}
TextPayloadFields ==
    {"text", "title", "meta_description", "headings", "word_count", "character_count"}
EnvelopeFields == {"success", "processing_time", "timestamp", "error"}

\* C1: every failure envelope carries the payload fields of the success
\* envelope at their zero values, next to error: urls = [] and count = 0 from
\* URLScraper.scrape; text, title, meta_description, headings, word_count and
\* character_count empty or zero from TextScraper.scrape.
C1_FailureEnvelopeHasZeroPayload ==
    (pc = "done" /\ ~result.success) =>
        /\ "error" \in DOMAIN result
        /\ IF op = "urls"
           THEN /\ UrlPayloadFields \subseteq DOMAIN result
                /\ result.urls = <<>>
                /\ result.count = 0
           ELSE /\ TextPayloadFields \subseteq DOMAIN result
                /\ result.text = <<>>
                /\ result.title = <<>>
                /\ result.meta_description = <<>>
                /\ result.headings = EmptyDict
                /\ result.word_count = 0
                /\ result.character_count = 0

\* C2: whatever validation, fetch, parsing and extraction do, scrape() ends
\* by returning an envelope (an exception is never what the caller gets): the
\* envelope has a boolean success, processing_time and timestamp, and when
\* success is false its error is a non-empty string.
C2_EnvelopeWellFormed ==
    /\ pc \in {"idle", "fetch", "parse", "done"}
    /\ (pc = "done") =>
        /\ EnvelopeFields \subseteq DOMAIN result
        /\ result.success \in BOOLEAN
        /\ result.processing_time \in Nat
        /\ result.timestamp = "utcnow"
        /\ ~result.success => (result.error # None /\ result.error # "")
        /\ result.success => result.error = None

\* a request failure whose exception has an empty message still gives an
\* envelope with a non-empty error
C2_Witness ==
    /\ pc = "done"
    /\ gets = 1
    /\ ~result.success
    /\ result.error = "Request failed: "

\* C3: no success envelope comes from a fetched body larger than
\* MAX_CONTENT_LENGTH bytes, from either scraper.
C3_NoSuccessFromOversizedBody ==
    (pc = "done" /\ response # NoResponse /\ response.content_length > MAX_CONTENT_LENGTH)
        => ~result.success

\* C6: a call issues at most one GET, and after a timeout, a request failure
\* or an oversized body it ends with a failure envelope, whatever MAX_RETRIES is.
C6_OneGetThenTerminalFailure ==
    /\ gets <= 1
    /\ (/\ pc = "done"
        /\ gets = 1
        /\ (response = NoResponse \/ response.content_length > MAX_CONTENT_LENGTH))
        => ~result.success

-----------------------------------------------------------------------------
(* Properties of the url normalizer (SpecValidate) *)

\* C4: for an argument of whitespace only (the empty string included),
\* validate_url returns an error and no normalized url, so the call ends at
\* once with a validation failure and no url is built from the argument.
C4_WhitespaceOnlyIsRejected ==
    (op # "none" /\ strip(arg) = <<>>) =>
        /\ url = NoneSeq
        /\ pc = "done"
        /\ ~result.success
        /\ result.error = "URL cannot be empty"

-----------------------------------------------------------------------------
(* Properties of the link extractor (SpecLinks) *)

\* the positions of the anchor elements of a document that carry an href
AnchorPositions(doc) == {i \in DOMAIN doc : doc[i].tag = "a" /\ doc[i].href # Absent}

\* the number of anchors with an href at or before position i
AnchorRank(doc, i) == Cardinality({j \in AnchorPositions(doc) : j <= i})

\* C5: link extraction never fails on a malformed href: for every fetched
\* document the call returns success, and every anchor with an href, also one
\* whose href cannot be resolved against the base url, is in the list.
C5_MalformedHrefStillListed ==
    (pc = "done" /\ op = "urls" /\ response # NoResponse) =>
        /\ result.success
        /\ \A i \in AnchorPositions(response.doc) :
             \E k \in DOMAIN result.urls :
                result.urls[k].original_href = response.doc[i].href

\* C7: the links of a successful extract_links have the ids 1, 2, ..., n in
\* document order, without gap or repeat, where n is the number of anchor
\* elements with an href, and count is n.
C7_LinkIdsContiguous ==
    (pc = "done" /\ op = "urls" /\ result.success) =>
        /\ result.count = Cardinality(AnchorPositions(response.doc))
        /\ Len(result.urls) = result.count
        /\ \A k \in 1..Len(result.urls) : result.urls[k].id = k
        /\ \A i \in AnchorPositions(response.doc) :
             result.urls[AnchorRank(response.doc, i)].original_href = response.doc[i].href

\* two links, numbered 1 and 2, from a document whose first anchor has no href
C7_Witness ==
    /\ pc = "done"
    /\ op = "urls"
    /\ result.success
    /\ Len(response.doc) = 3
    /\ response.doc[1].tag = "a"
    /\ response.doc[1].href = Absent
    /\ result.count = 2
    /\ result.urls[1].id = 1
    /\ result.urls[2].id = 2
    /\ result.urls[1].original_href = H_other
    /\ result.urls[2].original_href = H_report

-----------------------------------------------------------------------------
(* Properties of the metadata chains (SpecMeta) *)

\* the first non-empty value of a list of candidates, '' when there is none
RECURSIVE FirstNonEmpty(_)
FirstNonEmpty(candidates) ==
    IF candidates = <<>> THEN <<>>
    ELSE IF Head(candidates) # <<>> THEN Head(candidates)
    ELSE FirstNonEmpty(Tail(candidates))

\* the text of the first element with the tag, '' when the tree has none
TextOfFirst(soup, tag) ==
    IF soup_find(soup, tag) = 0 THEN <<>> ELSE get_text_strip(soup, soup_find(soup, tag))

\* the content of the first meta element with attr = value, '' when there is none
ContentOfMeta(soup, attr, value) ==
    IF find_meta(soup, attr, value) = 0 THEN <<>>
    ELSE get_or_empty(soup.nodes[find_meta(soup, attr, value)].content)

TitleCandidates(soup) ==
    << TextOfFirst(soup, "title"),
       ContentOfMeta(soup, "property", S_og_title),
       TextOfFirst(soup, "h1") >>

DescriptionCandidates(soup) ==
    << ContentOfMeta(soup, "name", S_description),
       ContentOfMeta(soup, "property", S_og_description) >>

\* C8: each fallback chain goes through its sources in order until one gives
\* a non-empty value: title is the <title> text, else the og:title content,
\* else the first <h1> text, else ''; meta_description is the
\* meta[name=description] content, else the og:description content, else ''.
C8_FallbackUntilNonEmpty ==
    (pc = "done" /\ op = "text" /\ result.success) =>
        /\ result.title = FirstNonEmpty(TitleCandidates(BeautifulSoup(response.doc)))
        /\ result.meta_description =
              FirstNonEmpty(DescriptionCandidates(BeautifulSoup(response.doc)))

-----------------------------------------------------------------------------
(* Properties of the headings map (SpecHeadings) *)

HeadingLevels == {"h1", "h2", "h3", "h4", "h5", "h6"}

NoiseTagNames == {"script", "style", "nav", "header", "footer", "aside"}
NoiseWords == {S_nav, S_menu, S_sidebar, S_footer, S_header}

\* a node that noise removal takes out of the tree, with all below it
IsNoise(node) ==
    \/ node.tag \in NoiseTagNames
    \/ node.class # Absent /\ \E w \in NoiseWords : contains(node.class, w)
    \/ node.id # Absent /\ \E w \in NoiseWords : contains(node.id, w)

\* position i is neither noise nor below a noise element
Kept(doc, i) == \A j \in 1..i : i \in Subtree(doc, j) => ~IsNoise(doc[j])

\* the strings at the positions, in document order, each stripped, concatenated
RECURSIVE StrippedConcat(_, _)
StrippedConcat(doc, positions) ==
    IF positions = <<>> THEN <<>>
    ELSE strip(doc[Head(positions)].str) \o StrippedConcat(doc, Tail(positions))

\* the texts of the headings with the tag that are left after noise removal
KeptHeadingText(doc, i) ==
    StrippedConcat(doc, InOrder({j \in Subtree(doc, i) : Kept(doc, j)}))

KeptHeadingsAt(doc, hs) == [k \in 1..Len(hs) |-> KeptHeadingText(doc, hs[k])]

KeptHeadings(doc, tag) ==
    KeptHeadingsAt(doc, InOrder({i \in DOMAIN doc : doc[i].tag = tag /\ Kept(doc, i)}))

\* <title>Example</title> <h1>A</h1> <h1> B </h1>
D_headings ==
    << [Element("title") EXCEPT !.str = T_Example],
       [Element("h1") EXCEPT !.str = <<"A">>],
       [Element("h1") EXCEPT !.str = <<" ", "B", " ">>] >>

\* C9 as stated: on every successful extract_text the headings map has an
\* entry for each level 1..6, and each entry lists, in document order, the
\* stripped text of every heading element of that level in the parsed document.
C9_HeadingsOfParsedDocument ==
    (pc = "done" /\ op = "text" /\ result.success) =>
        /\ DOMAIN result.headings = HeadingLevels
        /\ \A level \in HeadingLevels :
             result.headings[level] = heading_texts(BeautifulSoup(response.doc), level)

\* C9 amended: on every successful extract_text the headings map has an entry
\* for each level 1..6 (an empty list when the level has no heading), and each
\* entry lists, in document order, the text of every heading element of that
\* level that is left in the tree after noise removal, each of its remaining
\* strings stripped; <title>Example</title> with the two <h1> 'A' and 'B'
\* gives title 'Example' and headings.h1 = ['A', 'B'].
C9_HeadingsOfCleanedTree ==
    (pc = "done" /\ op = "text" /\ result.success) =>
        /\ DOMAIN result.headings = HeadingLevels
        /\ \A level \in HeadingLevels :
             result.headings[level] = KeptHeadings(response.doc, level)
        /\ (response.doc = D_headings) =>
             /\ result.title = T_Example
             /\ result.headings.h1 = << <<"A">>, <<"B">> >>

\* the example document has been extracted
C9_Witness ==
    /\ pc = "done"
    /\ op = "text"
    /\ result.success
    /\ response.doc = D_headings
    /\ result.title = T_Example
    /\ result.headings.h1 = << <<"A">>, <<"B">> >>
    /\ result.headings.h2 = <<>>

-----------------------------------------------------------------------------
(* Properties of the text normalization (SpecClean) *)

\* re.sub(r'\s+', ' ', text).strip(): one pass over the raw text
single_pass_collapse(text) == strip(re_sub_ws(text))

\* the raw text of a page that is one text node
RawTextOf(doc) == IF doc = <<>> THEN <<>> ELSE doc[1].str

\* C10 as stated: the two-stage normalization of _clean_text is not
\* equivalent to the single-pass collapse of every whitespace run to one space
\* followed by a trim: among the raw texts a cleaned page may have held there
\* is one on which the two differ.
C10_TwoStageDiffersFromSinglePass ==
    (pc = "done" /\ op = "text" /\ result.success) =>
        \E text \in RawTexts : _clean_text(text) # single_pass_collapse(text)

\* C10 amended: the two-stage normalization of _clean_text gives, on every
\* raw text, the text the single-pass collapse of every whitespace run to one
\* space followed by a trim gives: no word is merged or split by either.
C10_TwoStageEqualsSinglePass ==
    (pc = "done" /\ op = "text" /\ result.success) =>
        result.text = single_pass_collapse(RawTextOf(response.doc))

\* a raw text with a double space and a line break between words was cleaned
C10_Witness ==
    /\ pc = "done"
    /\ op = "text"
    /\ result.success
    /\ response.doc = << TextNode(<<"a", " ", " ", "b", "\n">>) >>
    /\ result.text = <<"a", " ", "b">>
    /\ result.word_count = 2

-----------------------------------------------------------------------------
(* Properties of the cleaned text (SpecClean) *)

\* C11: text cleaning is idempotent: for every raw text t,
\* _clean_text(_clean_text(t)) is _clean_text(t).
C11_CleanTextIdempotent ==
    (pc = "done" /\ op = "text" /\ result.success) =>
        /\ result.text = _clean_text(RawTextOf(response.doc))
        /\ _clean_text(result.text) = result.text

\* a raw text that cleaning changes has been cleaned, and cleaning the
\* result again leaves it as it is
C11_Witness ==
    /\ pc = "done"
    /\ op = "text"
    /\ result.success
    /\ response.doc = << TextNode(<<"a", "\t", "\t", "\t", "b">>) >>
    /\ result.text = <<"a", " ", "b">>
    /\ _clean_text(result.text) = <<"a", " ", "b">>

\* the number of whitespace-delimited tokens of a text: the positions where
\* a token starts
TokenCount(text) ==
    Cardinality({i \in DOMAIN text :
                   /\ text[i] \notin Whitespace
                   /\ (i = 1 \/ text[i - 1] \in Whitespace)})

\* C12: in every successful extract_text envelope word_count is the number of
\* whitespace-delimited tokens of the returned text and character_count is
\* its length, also when the cleaned text is empty (both counts 0).
C12_CountsMatchText ==
    (pc = "done" /\ op = "text" /\ result.success) =>
        /\ result.word_count = TokenCount(result.text)
        /\ result.character_count = Len(result.text)
        /\ (result.text = <<>>) => (result.word_count = 0 /\ result.character_count = 0)

\* a page of whitespace only was cleaned to the empty text, with both counts 0
C12_Witness ==
    /\ pc = "done"
    /\ op = "text"
    /\ result.success
    /\ response.doc = << TextNode(<<" ", "\n", "\t">>) >>
    /\ result.text = <<>>
    /\ result.word_count = 0
    /\ result.character_count = 0

-----------------------------------------------------------------------------
(* Properties of the link classification (SpecClassify) *)

\* the rules of link_type, in the order they are tried
LinkTypeRules ==
    << [test |-> "prefix", of |-> {S_mailto}, type |-> "email"],
       [test |-> "prefix", of |-> {S_tel}, type |-> "phone"],
       [test |-> "prefix", of |-> {S_ftp}, type |-> "ftp"],
       [test |-> "prefix", of |-> {<<"#">>}, type |-> "anchor"],
       [test |-> "prefix", of |-> {S_javascript}, type |-> "javascript"],
       [test |-> "suffix", of |-> FileExtensions, type |-> "file"] >>

RuleMatches(rule, href) ==
    IF rule.test = "prefix"
    THEN \E p \in rule.of : Len(href) >= Len(p) /\ \A i \in 1..Len(p) : href[i] = p[i]
    ELSE \E x \in rule.of :
           /\ Len(href) >= Len(x)
           /\ \A i \in 1..Len(x) : LowerChar(href[Len(href) - Len(x) + i]) = x[i]

\* the type of the first rule that matches, web when none does
RECURSIVE FirstMatchingType(_, _)
FirstMatchingType(rules, href) ==
    IF rules = <<>> THEN "web"
    ELSE IF RuleMatches(Head(rules), href) THEN Head(rules).type
    ELSE FirstMatchingType(Tail(rules), href)

\* C13: link_type is decided by the first matching rule, in the order
\* mailto: (email), tel: (phone), ftp: (ftp), # (anchor), javascript:
\* (javascript), a file suffix of the lowercased href (file), otherwise web;
\* 'mailto:#fragment' is email, and an href matching an earlier rule is never
\* file even if it ends with a file suffix.
C13_LinkTypeFirstMatch ==
    (pc = "done" /\ op = "urls" /\ result.success) =>
        \A k \in DOMAIN result.urls :
            /\ result.urls[k].link_type =
                  FirstMatchingType(LinkTypeRules, result.urls[k].original_href)
            /\ (result.urls[k].original_href = H_mailto_fragment)
                  => result.urls[k].link_type = "email"
            /\ (\E n \in 1..5 : RuleMatches(LinkTypeRules[n], result.urls[k].original_href))
                  => result.urls[k].link_type # "file"

\* 'mailto:#fragment' came out as email and 'mailto:a.pdf' as email, not file
C13_Witness ==
    /\ pc = "done"
    /\ op = "urls"
    /\ result.success
    /\ result.count = 2
    /\ result.urls[1].original_href = H_mailto_fragment
    /\ result.urls[1].link_type = "email"
    /\ result.urls[2].original_href = H_mailto_pdf
    /\ result.urls[2].link_type = "email"

\* the characters of s before the first one in stops
RECURSIVE TakeUntil(_, _)
TakeUntil(s, stops) ==
    IF s = <<>> \/ Head(s) \in stops THEN <<>>
    ELSE <<Head(s)>> \o TakeUntil(Tail(s), stops)

\* the host of an absolute url scheme://host[:port]/..., lowercased; '' for a
\* url without an authority (mailto:, tel:, javascript:)
HostOfAuthority(authority) == lower(TakeUntil(authority, {":"}))

HostAfter(u, i) ==
    IF i = 0 THEN <<>>
    ELSE HostOfAuthority(TakeUntil(SubSeq(u, i + 3, Len(u)), {"/", "?", "#"}))

HostOf(u) == HostAfter(u, find(u, <<":", "/", "/">>))

\* C14: is_external is false when the host of the resolved link is the host
\* of the base url, true when the two hosts differ and the link's host is not
\* empty, false when the link's host is empty (mailto:, tel:, javascript:);
\* it is a boolean, never an error.
C14_ExternalIffOtherHost ==
    (pc = "done" /\ op = "urls" /\ result.success) =>
        \A k \in DOMAIN result.urls :
            /\ result.urls[k].is_external \in BOOLEAN
            /\ result.urls[k].is_external =
                  (/\ HostOf(result.urls[k].url) # HostOf(url)
                   /\ HostOf(result.urls[k].url) # <<>>)

\* what each href of the pages is classified as, wherever it stands
HrefTable ==
    { [href |-> H_mailto_fragment, is_relative |-> FALSE, link_type |-> "email"],
      [href |-> H_mailto_pdf, is_relative |-> FALSE, link_type |-> "email"],
      [href |-> H_tel_zip, is_relative |-> FALSE, link_type |-> "phone"],
      [href |-> H_ftp_rar, is_relative |-> FALSE, link_type |-> "ftp"],
      [href |-> H_ftp_doc, is_relative |-> TRUE, link_type |-> "ftp"],
      [href |-> H_anchor_pdf, is_relative |-> TRUE, link_type |-> "anchor"],
      [href |-> H_javascript_zip, is_relative |-> TRUE, link_type |-> "javascript"],
      [href |-> H_upper_pdf, is_relative |-> TRUE, link_type |-> "file"],
      [href |-> H_same_host_port, is_relative |-> FALSE, link_type |-> "web"],
      [href |-> H_report, is_relative |-> TRUE, link_type |-> "file"],
      [href |-> H_other, is_relative |-> FALSE, link_type |-> "web"] }

AbsolutePrefixes == {S_http, S_https, S_mailto, S_tel, S_ftp_slashes}

\* C15: is_relative is true exactly when original_href does not begin with
\* http://, https://, mailto:, tel: or ftp://, and is_relative and link_type
\* depend on original_href alone: the same href gets the same two values
\* whatever the base url, the document and the position
\* ('/docs/report.pdf' is always is_relative = true, link_type = file).
C15_RelativeAndTypeOfHrefAlone ==
    (pc = "done" /\ op = "urls" /\ result.success) =>
        \A k \in DOMAIN result.urls :
            /\ result.urls[k].is_relative =
                  ~\E p \in AbsolutePrefixes :
                      /\ Len(result.urls[k].original_href) >= Len(p)
                      /\ SubSeq(result.urls[k].original_href, 1, Len(p)) = p
            /\ \E row \in HrefTable :
                  /\ row.href = result.urls[k].original_href
                  /\ row.is_relative = result.urls[k].is_relative
                  /\ row.link_type = result.urls[k].link_type
            /\ \A j \in DOMAIN result.urls :
                  (result.urls[j].original_href = result.urls[k].original_href) =>
                      /\ result.urls[j].is_relative = result.urls[k].is_relative
                      /\ result.urls[j].link_type = result.urls[k].link_type

\* '/docs/report.pdf' twice on a page of another site: relative and file both times
C15_Witness ==
    /\ pc = "done"
    /\ op = "urls"
    /\ result.success
    /\ url = U_other
    /\ result.count = 2
    /\ \A k \in 1..2 :
          /\ result.urls[k].original_href = H_report
          /\ result.urls[k].is_relative
          /\ result.urls[k].link_type = "file"

-----------------------------------------------------------------------------
(* Properties of the normalized url (SpecValidate) and of the validation     *)
(* failure (Spec)                                                            *)

\* the positions of the characters of s that are not whitespace
InkPositions(s) == {i \in DOMAIN s : s[i] \notin Whitespace}

\* s without the whitespace around it
Trimmed(s) ==
    IF InkPositions(s) = {} THEN <<>>
    ELSE SubSeq(s, CHOOSE i \in InkPositions(s) : \A j \in InkPositions(s) : i <= j,
                   CHOOSE i \in InkPositions(s) : \A j \in InkPositions(s) : i >= j)

HasHttpPrefix(s) ==
    \E p \in {S_http, S_https} : Len(s) >= Len(p) /\ SubSeq(s, 1, Len(p)) = p

\* C16: for every input whose trimmed form is not empty the normalizer
\* succeeds with a string that starts with http:// or https:// and has no
\* whitespace around it: the trimmed input when it has such a prefix,
\* otherwise 'https://' followed by the trimmed input; a missing scheme is
\* never an error.
C16_NormalizedUrl ==
    (op # "none" /\ Trimmed(arg) # <<>>) =>
        /\ url # NoneSeq
        /\ HasHttpPrefix(url)
        /\ url[1] \notin Whitespace
        /\ url[Len(url)] \notin Whitespace
        /\ url = (IF HasHttpPrefix(Trimmed(arg)) THEN Trimmed(arg)
                  ELSE S_https \o Trimmed(arg))
        /\ pc # "idle"
        /\ (pc = "done") => (gets = 1 /\ result.error # "URL cannot be empty")

\* ' site.com' with whitespace on both sides became https://site.com and was fetched
C16_Witness ==
    /\ pc = "done"
    /\ arg = <<"\t", " ">> \o U_site \o <<"\n">>
    /\ url = S_https \o U_site
    /\ gets = 1
    /\ result.success

\* C17: a validation failure never reaches the network: for the empty url
\* extract_links and extract_text return a failure envelope with a non-empty
\* error and every payload field at its zero value, and no GET is issued
\* during the call.
C17_EmptyUrlNeverFetched ==
    (op # "none" /\ arg = <<>>) =>
        /\ pc = "done"
        /\ gets = 0
        /\ response = NoResponse
        /\ ~result.success
        /\ result.error # None
        /\ result.error # ""
        /\ IF op = "urls"
           THEN DOMAIN result = EnvelopeFields \cup UrlPayloadFields
                /\ result.urls = <<>>
                /\ result.count = 0
           ELSE DOMAIN result = EnvelopeFields \cup TextPayloadFields
                /\ result.text = <<>>
                /\ result.title = <<>>
                /\ result.meta_description = <<>>
                /\ result.headings = EmptyDict
                /\ result.word_count = 0
                /\ result.character_count = 0

\* extract_text of the empty url has returned, without a GET
C17_Witness ==
    /\ pc = "done"
    /\ op = "text"
    /\ arg = <<>>
    /\ gets = 0
    /\ ~result.success
    /\ result.error = "URL cannot be empty"
    /\ result.word_count = 0

-----------------------------------------------------------------------------
(* Properties of the size check and of the error kinds (Spec) *)

\* the message of the ContentTooLarge failure for a body of n bytes
ContentTooLargeMessage(n) ==
    "Content too large: " \o ToString(n) \o " bytes (max: 1000000)"

\* C18: in extract_text a fetched body of exactly MAX_CONTENT_LENGTH bytes
\* passes the size check and is processed to a success envelope, and a body
\* of MAX_CONTENT_LENGTH + 1 bytes fails with 'Content too large' and the
\* payload at its zero values.
C18_SizeBoundary ==
    (pc = "done" /\ op = "text" /\ response # NoResponse) =>
        /\ (response.content_length = 1000000) =>
              /\ result.error # ContentTooLargeMessage(1000000)
              /\ ~response.rejected => result.success
        /\ (response.content_length = 1000001) =>
              /\ ~result.success
              /\ result.error = ContentTooLargeMessage(1000001)
              /\ DOMAIN result = EnvelopeFields \cup TextPayloadFields
              /\ result.text = <<>>
              /\ result.title = <<>>
              /\ result.meta_description = <<>>
              /\ result.headings = EmptyDict
              /\ result.word_count = 0
              /\ result.character_count = 0

\* a page of exactly MAX_CONTENT_LENGTH bytes has been extracted
C18_Witness ==
    /\ pc = "done"
    /\ op = "text"
    /\ response # NoResponse
    /\ response.content_length = MAX_CONTENT_LENGTH
    /\ response.doc = D_page
    /\ result.success
    /\ result.title = T_Example

\* C19: every failed call is reported under exactly one error kind: a fetch
\* that times out as 'Request timeout after N seconds', never as a request
\* failure; any other request exception, a non-2xx status included, as
\* 'Request failed: ...'; an oversized body as 'Content too large'; any other
\* exception of parsing or extraction as 'Unexpected error: ...'.
C19_OneErrorKindPerFailure ==
    (pc = "done" /\ gets = 1) =>
        /\ (caught.type \in {"ReadTimeout", "ConnectTimeout"}) =>
              /\ ~result.success
              /\ result.error = "Request timeout after 10 seconds"
        /\ (caught.type \in {"ConnectionError", "HTTPError", "InvalidURL", "TooManyRedirects"}) =>
              /\ ~result.success
              /\ result.error = "Request failed: " \o caught.msg
        /\ (response # NoResponse /\ response.status \notin 200..299) =>
              /\ ~result.success
              /\ caught.type = "HTTPError"
        /\ (response # NoResponse /\ response.content_length > 1000000) =>
              /\ ~result.success
              /\ result.error = ContentTooLargeMessage(response.content_length)
        /\ (/\ response # NoResponse
            /\ response.content_length <= 1000000
            /\ caught # NoException) =>
              /\ ~result.success
              /\ result.error = "Unexpected error: " \o caught.msg
        /\ ~result.success =>
              \/ caught # NoException
              \/ response # NoResponse /\ response.content_length > 1000000

-----------------------------------------------------------------------------
(* Properties of noise removal (SpecNoise) *)

\* the elements of a document that a rule of noise removal matches
Matched(doc) == {i \in DOMAIN doc : IsNoise(doc[i])}

\* every order in which the elements of a set can be taken
RECURSIVE Orders(_)
Orders(S) ==
    IF S = {} THEN {<<>>}
    ELSE UNION {{<<x>> \o rest : rest \in Orders(S \ {x})} : x \in S}

\* the tree after the matched elements were removed in the given order is
\* the tree the scraper was left with, and its text is the text returned
SameAsRemovedInOrder(doc, order, cleaned) ==
    /\ decompose_each(BeautifulSoup(doc), order) = cleaned
    /\ cleaned.alive = {i \in DOMAIN doc : Kept(doc, i)}

\* C20: the result of noise removal does not depend on the order in which
\* the matched elements are removed: for every document tree, also with
\* matched elements nested in one another or matching several rules, removing
\* them in any order leaves the same tree and so the same cleaned text.
C20_RemovalOrderIndependent ==
    (pc = "done" /\ op = "text" /\ result.success) =>
        /\ \A order \in Orders(Matched(response.doc)) :
              SameAsRemovedInOrder(response.doc, order,
                                   _remove_unwanted_elements(BeautifulSoup(response.doc)))
        /\ \A order \in Orders(Matched(response.doc)) :
              result.text =
                 _clean_text(soup_get_text(decompose_each(BeautifulSoup(response.doc), order)))

\* <header><nav class="menu" id="header">N</nav></header><p>a</p>: a matched
\* element inside another, matching three rules
C20_Witness ==
    /\ pc = "done"
    /\ op = "text"
    /\ result.success
    /\ Len(response.doc) = 3
    /\ response.doc[1].tag = "header"
    /\ response.doc[2].tag = "nav"
    /\ response.doc[2].depth = 1
    /\ response.doc[3].tag = "p"
    /\ response.doc[3].depth = 0
    /\ Cardinality(Orders(Matched(response.doc))) = 2
    /\ result.text = <<"a">>

-----------------------------------------------------------------------------
(* Calls in progress at the same time (SpecConcurrent) *)

\* C21: no call writes state that another call reads: the shared session is
\* read-only after construction, so no request of a call is prepared from
\* anything an earlier call left in the session (its Cookie header is empty
\* whenever it is sent)
C21_NoCallReadsWhatAnotherWrote ==
    \A t \in 1..MaxThreads :
        calls[t].pc \in {"wait", "parse", "done"} => calls[t].cookie_header = {}

-----------------------------------------------------------------------------
(* Authentication of the scrape routes (SpecAuth) *)

ScrapeRoutes == {"/api/scrape/urls", "/api/scrape/text"}

\* the keys a request carries: its X-API-Key header and its Bearer token
CarriedKeys(req) ==
    {req.x_api_key}
    \cup (IF req.authorization # NoneSeq /\ Len(req.authorization) >= 7
             /\ SubSeq(req.authorization, 1, 7) = S_Bearer
          THEN {SubSeq(req.authorization, 8, Len(req.authorization))} ELSE {})

\* the keys of the manager that are active
ActiveKeys(keys) == {keys[i].key : i \in {j \in DOMAIN keys : keys[j].info.active}}

\* C22: a POST to a scrape route that carries no valid active key (none, an
\* unknown one or a revoked one, in X-API-Key or as Bearer token) is answered
\* 401 with success false, and nothing else was done for it: no url
\* validation, no rate-limit delay, no fetch
C22_NoKeyNoService ==
    (/\ served # NoRequest
     /\ served.request.route \in ScrapeRoutes
     /\ CarriedKeys(served.request) \cap ActiveKeys(api_keys) = {})
    => /\ served.status = 401
       /\ served.json.success = FALSE
       /\ served.validations = 0
       /\ served.slept = 0
       /\ served.gets = 0

\* a scrape request with a key that was revoked has been turned away
C22_Witness ==
    /\ served # NoRequest
    /\ served.request.route = "/api/scrape/text"
    /\ served.request.x_api_key = K_secret
    /\ key_in(api_keys, K_secret)
    /\ K_secret \notin ActiveKeys(api_keys)
    /\ served.status = 401
    /\ served.gets = 0

-----------------------------------------------------------------------------
(* What noise removal takes out of the text (SpecCase) *)

\* the characters of a text that are not whitespace
NoWs(s) == SelectSeq(s, LAMBDA c : c \notin Whitespace)

\* the strings of the document at the positions, in document order
StringsAt(doc, order) == [k \in 1..Len(order) |-> doc[order[k]].str]

\* the text of the document outside every noise element
TextOutsideNoise(doc) ==
    Flatten(StringsAt(doc, InOrder({i \in DOMAIN doc : Kept(doc, i)})))

\* C23: the cleaned text is, whitespace apart, the text of the document that
\* lies outside every script, style, nav, header, footer and aside element
\* and outside every element whose class or id contains nav, menu, sidebar,
\* footer or header in exactly that spelling: nothing inside such an element
\* is in it, everything outside is, and an element that spells one of the
\* words in another letter case is not removed
C23_TextIsWhatLiesOutsideNoise ==
    (pc = "done" /\ op = "text" /\ result.success)
    => NoWs(result.text) = NoWs(TextOutsideNoise(response.doc))

\* <div class="Navbar">U</div> stayed and <div class="btn nav">c</div> went
C23_Witness ==
    /\ pc = "done"
    /\ op = "text"
    /\ result.success
    /\ Len(response.doc) = 2
    /\ response.doc[1].class = <<"N", "a", "v", "b", "a", "r">>
    /\ response.doc[2].class = <<"b", "t", "n", " ", "n", "a", "v">>
    /\ response.doc[2].depth = 0
    /\ result.text = <<"U">>

-----------------------------------------------------------------------------
(* Key management (SpecKeys) *)

\* revoke_api_key(k) has returned True: k is in the dict, marked inactive
Revoked(keys, k) == key_in(keys, k) /\ ~dict_get(keys, k).active

\* the request just served generated the key k
JustGenerated(s, k) ==
    /\ s # NoRequest
    /\ s.request.route = "/api/keys/generate"
    /\ s.status = 201
    /\ s.json.key = k

\* C24: a revoked key stays revoked: whatever the server does next (list,
\* revoke, validate, generate of another key), validate_api_key of a revoked
\* key still returns None afterwards, and a request that authenticates with
\* a revoked key is answered 401
C24_RevokedStaysRevoked ==
    [][\A k \in KeyUniverse :
          Revoked(api_keys, k)
          => /\ ~JustGenerated(served', k) => validate_api_key(api_keys', k) = NoKeyInfo
             /\ presented_key(served'.request) = k => served'.status = 401]_vars

\* the key "secret" was revoked, a key has been generated, and a request
\* with "secret" has just been turned away
C24_Witness ==
    /\ Revoked(api_keys, K_secret)
    /\ Len(generated(api_keys)) = 1
    /\ served # NoRequest
    /\ served.request.route = "/api/keys"
    /\ served.request.x_api_key = K_secret
    /\ served.status = 401

\* C25: list_api_keys never shows an actual key: no entry of the listing
\* begins with the whole of the key it stands for
C25_ListingShowsNoKey ==
    (served # NoRequest /\ served.request.route = "/api/keys" /\ served.status = 200)
    => \A i \in DOMAIN api_keys :
           ~startswith(served.json.keys[i].key_id, api_keys[i].key)

-----------------------------------------------------------------------------
(* The route's validator and the scraper's (SpecRoute) *)

\* the body has no url, or one that is empty or all whitespace
UrlMissingOrBlank(data) ==
    \/ data.null
    \/ "url" \notin DOMAIN data.obj
    \/ /\ data.obj["url"] # NoneSeq
       /\ \A i \in DOMAIN data.obj["url"] : data.obj["url"][i] \in Whitespace

\* the request reached scraper.scrape
HandedToScraper(s) == s # NoRequest /\ "arg" \in DOMAIN s

=============================================================================
